---- MODULE Spec2Model ----
(***************************************************************************)
(* A model of the .vibe DSL interpreter (src/main.go): the lexer, the      *)
(* recursive-descent parser, the AST printer (the String methods) and the  *)
(* tree-walking interpreter (Interpreter.Execute and what it calls).       *)
(*                                                                         *)
(* Text is a sequence of one-character strings, so that lexing, printing   *)
(* and number formatting are computed and not assumed.  A float64 is an    *)
(* integer number of tenths (Scale), which is exact for every literal with *)
(* at most one fractional digit and for ++ and --.                         *)
(***************************************************************************)
EXTENDS Integers, Sequences, FiniteSets, TLC

VARIABLES
    script,       \* the script text handed to NewLexer
    program,      \* Program.Statements, the result of Parser.Parse
    pc,           \* where main / Execute stands
    dryRun,       \* Interpreter.dryRun
    variables,    \* Interpreter.variables
    beforeHooks,  \* Interpreter.beforeHooks
    afterHooks,   \* Interpreter.afterHooks
    hookIdx,      \* position of the range loop over the hook list being run
    stack,        \* the active executeStatement loops of the main pass
    trace,        \* every leaf statement executed so far, in order
    err,          \* the error Execute returned (<<>> is nil)
    printed,      \* Program.String() of the parsed program
    reparsed,     \* the program parsed from `printed`
    cond,         \* a Condition handed to evalCondition
    condResult,   \* what evalCondition returned for it
    pieces,       \* the lexical pieces a text handed to the lexer was written from
    tokens,       \* the tokens NextToken has returned so far
    lexPos,       \* Lexer.pos, the position of the lexer's current character
    call          \* the number of inputs read: 1 for the script file of main,
                  \* the number of lines read so far for the REPL

vars == <<script, program, pc, dryRun, variables, beforeHooks, afterHooks,
          hookIdx, stack, trace, err, printed, reparsed, cond, condResult,
          pieces, tokens, lexPos, call>>

(***************************************************************************)
(* Bounds of the model.                                                    *)
(***************************************************************************)
MaxStmts == 2

(***************************************************************************)
(* Characters.                                                             *)
(***************************************************************************)
DigitChars == <<"0", "1", "2", "3", "4", "5", "6", "7", "8", "9">>

LetterChars ==
    {"a", "b", "c", "d", "e", "f", "g", "h", "i", "j", "k", "l", "m", "n",
     "o", "p", "q", "r", "s", "t", "u", "v", "w", "x", "y", "z", "T", "F"}

isLetter(ch) == ch \in LetterChars \/ ch = "_"

isDigit(ch) == \E i \in 1..10 : DigitChars[i] = ch

DigitVal(ch) == (CHOOSE i \in 1..10 : DigitChars[i] = ch) - 1

\* The byte 0 that readChar stores at the end of the input.
NUL == "NUL"

SubSeqOrEmpty(s, a, b) == IF a > b THEN <<>> ELSE SubSeq(s, a, b)

(***************************************************************************)
(* LEXER.  The cursor is `pos`, the index of Lexer.ch in the input; line   *)
(* and column are carried by the tokens but read by nothing, and are left  *)
(* out.                                                                    *)
(***************************************************************************)
ChAt(input, pos) == IF pos >= 1 /\ pos <= Len(input) THEN input[pos] ELSE NUL

peekChar(input, pos) == ChAt(input, pos + 1)

\* Variant of skipWhitespace that also skips newlines.
RECURSIVE skipWhitespace_AndNewlines(_, _)
skipWhitespace_AndNewlines(input, pos) ==
    IF ChAt(input, pos) \in {" ", "\t", "\r", "\n"}
    THEN skipWhitespace_AndNewlines(input, pos + 1)
    ELSE pos

RECURSIVE skipWhitespace(_, _)
skipWhitespace(input, pos) ==
    IF ChAt(input, pos) \in {" ", "\t", "\r"}
    THEN skipWhitespace(input, pos + 1)
    ELSE pos

RECURSIVE SkipToEol(_, _)
SkipToEol(input, pos) ==
    IF ChAt(input, pos) # "\n" /\ ChAt(input, pos) # NUL
    THEN SkipToEol(input, pos + 1)
    ELSE pos

skipComment(input, pos) ==
    IF ChAt(input, pos) = "#" THEN SkipToEol(input, pos) ELSE pos

RECURSIVE ScanString(_, _)
ScanString(input, pos) ==
    IF ChAt(input, pos) # "\"" /\ ChAt(input, pos) # NUL
    THEN ScanString(input, pos + 1)
    ELSE pos

\* pos is at the opening quote; the result's pos is past the closing quote.
readString(input, pos) ==
    LET start == pos + 1
        stop  == ScanString(input, start)
    IN  [lit |-> SubSeqOrEmpty(input, start, stop - 1),
         pos |-> IF stop > Len(input) THEN Len(input) + 1 ELSE stop + 1]

RECURSIVE ScanIdentifier(_, _)
ScanIdentifier(input, pos) ==
    LET ch == ChAt(input, pos)
    IN  IF isLetter(ch) \/ isDigit(ch) \/ ch = "-" \/ ch = "_"
        THEN ScanIdentifier(input, pos + 1)
        ELSE pos

readIdentifier(input, pos) ==
    LET stop == ScanIdentifier(input, pos)
    IN  [lit |-> SubSeqOrEmpty(input, pos, stop - 1), pos |-> stop]

RECURSIVE ScanDigits(_, _)
ScanDigits(input, pos) ==
    IF isDigit(ChAt(input, pos)) THEN ScanDigits(input, pos + 1) ELSE pos

readNumber(input, pos) ==
    LET intEnd == ScanDigits(input, pos)
        stop   == IF ChAt(input, intEnd) = "." /\ isDigit(peekChar(input, intEnd))
                  THEN ScanDigits(input, intEnd + 1)
                  ELSE intEnd
    IN  [lit |-> SubSeqOrEmpty(input, pos, stop - 1), pos |-> stop]

lookupKeyword(ident) ==
    CASE ident = <<"i", "f">>                          -> "IF"
      [] ident = <<"e", "l", "s", "e">>                -> "ELSE"
      [] ident = <<"r", "e", "p", "e", "a", "t">>      -> "REPEAT"
      [] ident = <<"a", "s", "k">>                     -> "ASK"
      [] ident = <<"b", "e", "f", "o", "r", "e">>      -> "BEFORE"
      [] ident = <<"a", "f", "t", "e", "r">>           -> "AFTER"
      [] ident = <<"s", "h", "e", "l", "l">>           -> "SHELL"
      [] ident = <<"T", "r", "u", "e">>                -> "BOOLEAN"
      [] ident = <<"F", "a", "l", "s", "e">>           -> "BOOLEAN"
      [] OTHER                                         -> "IDENTIFIER"

Tok(type, lit) == [type |-> type, lit |-> lit]

\* The zero value of TokenType is TOKEN_EOF: a Token whose Type is never set
\* is an end-of-input token.
EofTok == Tok("EOF", <<>>)

TwoChar(input, pos, second, both, bothLit, single, singleLit) ==
    IF peekChar(input, pos) = second
    THEN [tok |-> Tok(both, bothLit), pos |-> pos + 2]
    ELSE [tok |-> Tok(single, singleLit), pos |-> pos + 1]

NextToken(input, pos0) ==
    LET pos == skipWhitespace(input, skipComment(input, skipWhitespace(input, pos0)))
        ch  == ChAt(input, pos)
        One(type) == [tok |-> Tok(type, <<ch>>), pos |-> pos + 1]
    IN  CASE ch = "\n" -> One("NEWLINE")
          [] ch = "="  -> TwoChar(input, pos, "=", "EQ", <<"=", "=">>, "ASSIGN", <<"=">>)
          [] ch = "!"  -> IF peekChar(input, pos) = "="
                          THEN [tok |-> Tok("NEQ", <<"!", "=">>), pos |-> pos + 2]
                          ELSE [tok |-> EofTok, pos |-> pos]
          [] ch = "<"  -> TwoChar(input, pos, "=", "LTE", <<"<", "=">>, "LT", <<"<">>)
          [] ch = ">"  -> TwoChar(input, pos, "=", "GTE", <<">", "=">>, "GT", <<">">>)
          [] ch = "+"  -> TwoChar(input, pos, "+", "PLUSPLUS", <<"+", "+">>, "PLUS", <<"+">>)
          [] ch = "-"  -> TwoChar(input, pos, "-", "MINUSMINUS", <<"-", "-">>, "MINUS", <<"-">>)
          [] ch = "{"  -> One("LBRACE")
          [] ch = "}"  -> One("RBRACE")
          [] ch = "["  -> One("LBRACKET")
          [] ch = "]"  -> One("RBRACKET")
          [] ch = ","  -> One("COMMA")
          [] ch = "."  -> One("DOT")
          [] ch = "\"" -> LET r == readString(input, pos)
                          IN  [tok |-> Tok("STRING", r.lit), pos |-> r.pos]
          [] ch = NUL  -> [tok |-> EofTok, pos |-> pos]
          [] OTHER     ->
                IF isLetter(ch)
                THEN LET r == readIdentifier(input, pos)
                     IN  [tok |-> Tok(lookupKeyword(r.lit), r.lit), pos |-> r.pos]
                ELSE IF isDigit(ch)
                THEN LET r == readNumber(input, pos)
                     IN  [tok |-> Tok("NUMBER", r.lit), pos |-> r.pos]
                ELSE [tok |-> EofTok, pos |-> pos]

\* The tokens the parser receives from repeated NextToken calls, up to and
\* including the first end-of-input token (every later call returns it again).
RECURSIVE LexFrom(_, _, _)
LexFrom(input, pos, acc) ==
    LET r == NextToken(input, pos)
    IN  IF r.tok.type = "EOF"
        THEN Append(acc, r.tok)
        ELSE LexFrom(input, r.pos, Append(acc, r.tok))

Tokens(input) == LexFrom(input, 1, <<>>)

(***************************************************************************)
(* Numbers.  strconv.ParseFloat and strconv.Atoi on the decimal forms the  *)
(* model's texts contain: an optional sign, digits, and an optional        *)
(* fraction of which the first digit is kept (exact for one fractional     *)
(* digit).  Exponents, hexadecimal forms, "inf" and "nan" are outside the  *)
(* model's texts.                                                          *)
(***************************************************************************)
Scale == 10

RECURSIVE DigitsValue(_, _)
DigitsValue(s, acc) ==
    IF s = <<>> THEN acc ELSE DigitsValue(Tail(s), acc * 10 + DigitVal(Head(s)))

AllDigits(s) == \A i \in 1..Len(s) : isDigit(s[i])

IndexOfDot(s) ==
    IF \E i \in 1..Len(s) : s[i] = "."
    THEN CHOOSE i \in 1..Len(s) : s[i] = "." /\ \A j \in 1..(i - 1) : s[j] # "."
    ELSE 0

\* [ok, val]: val is the value in tenths, 0 when the text is no number.
ParseFloat(text) ==
    LET neg  == Len(text) > 0 /\ text[1] = "-"
        body == IF Len(text) > 0 /\ text[1] \in {"-", "+"} THEN Tail(text) ELSE text
        dot  == IndexOfDot(body)
        ip   == IF dot = 0 THEN body ELSE SubSeqOrEmpty(body, 1, dot - 1)
        fp   == IF dot = 0 THEN <<>> ELSE SubSeqOrEmpty(body, dot + 1, Len(body))
        ok   == AllDigits(ip) /\ AllDigits(fp) /\ Len(ip) + Len(fp) > 0
        mag  == DigitsValue(ip, 0) * Scale + (IF fp = <<>> THEN 0 ELSE DigitVal(fp[1]))
    IN  [ok |-> ok, val |-> IF ok THEN (IF neg THEN -mag ELSE mag) ELSE 0]

\* strconv.Atoi of a NUMBER token's literal: an error (a fraction) yields 0.
Atoi(text) ==
    IF text # <<>> /\ AllDigits(text) THEN DigitsValue(text, 0) ELSE 0

(***************************************************************************)
(* AST NODES.  `kind` is the dynamic type of the Node interface value.     *)
(* An *IfStatement or *RepeatStatement can be a nil pointer inside a       *)
(* non-nil interface value (nilptr); NilNode is the nil interface value.   *)
(***************************************************************************)
NilNode == [kind |-> "nil"]

HangNode == [kind |-> "Hang"]   \* stands for a parser loop that never ends

Assignment(name, value) == [kind |-> "Assignment", name |-> name, value |-> value]

StringLiteral(v) == [kind |-> "StringLiteral", str |-> v]

NumberLiteral(v) == [kind |-> "NumberLiteral", num |-> v]

BooleanLiteral(v) == [kind |-> "BooleanLiteral", bool |-> v]

Identifier(name) == [kind |-> "Identifier", name |-> name]

ListLiteral(elems) == [kind |-> "ListLiteral", elements |-> elems]

AskStatement(instr) == [kind |-> "AskStatement", instruction |-> instr]

Condition(l, op, r) == [left |-> l, operator |-> op, right |-> r]

IfStatement(c, cons, alt) ==
    [kind |-> "IfStatement", nilptr |-> FALSE, condition |-> c,
     consequence |-> cons, alternative |-> alt]

NilIfStatement == [kind |-> "IfStatement", nilptr |-> TRUE]

RepeatStatement(count, body) ==
    [kind |-> "RepeatStatement", nilptr |-> FALSE, count |-> count, body |-> body]

NilRepeatStatement == [kind |-> "RepeatStatement", nilptr |-> TRUE]

BeforeBlock(stmts) == [kind |-> "BeforeBlock", statements |-> stmts]

AfterBlock(stmts) == [kind |-> "AfterBlock", statements |-> stmts]

ShellCommand(cmd) == [kind |-> "ShellCommand", command |-> cmd]

MCPCall(service, method, arg) ==
    [kind |-> "MCPCall", service |-> service, method |-> method, arg |-> arg]

IncrementDecrement(name, op) ==
    [kind |-> "IncrementDecrement", name |-> name, operator |-> op]

IsNilPtr(n) == n.kind \in {"IfStatement", "RepeatStatement"} /\ n.nilptr

(***************************************************************************)
(* PARSER.  `toks` is the token stream and `p` the index of curToken;      *)
(* peekToken is the token at p + 1.  Every parse function returns the node *)
(* and the index of curToken when it returns.                              *)
(***************************************************************************)
Cur(toks, p) == IF p <= Len(toks) THEN toks[p] ELSE EofTok

CurType(toks, p) == Cur(toks, p).type

PeekType(toks, p) == Cur(toks, p + 1).type

PR(node, pos) == [node |-> node, pos |-> pos]

RECURSIVE skipNewlines(_, _)
skipNewlines(toks, p) ==
    IF CurType(toks, p) = "NEWLINE" THEN skipNewlines(toks, p + 1) ELSE p

parseUnquotedString(toks, p) ==
    IF CurType(toks, p) = "IDENTIFIER"
    THEN PR(StringLiteral(Cur(toks, p).lit), p + 1)
    ELSE PR(StringLiteral(<<>>), p)

RECURSIVE parseValue(_, _)
RECURSIVE ParseListLoop(_, _, _)

\* The end of one iteration of parseList's loop, which began at p, parsed
\* the element r and stands at q.  An iteration that ends where it began, on
\* a token that is neither ] nor end-of-input, repeats for ever.
ParseListNext(toks, p, r, q, elems) ==
    IF r.node.kind = "Hang" \/ q = p
    THEN PR(HangNode, Len(toks) + 1)
    ELSE ParseListLoop(toks, q, Append(elems, r.node))

\* After the element r: an optional comma, then newlines.
ParseListElem(toks, p, r, elems) ==
    ParseListNext(toks, p, r,
                  skipNewlines(toks, IF CurType(toks, r.pos) = "COMMA"
                                     THEN r.pos + 1 ELSE r.pos),
                  elems)

\* The for loop of parseList and the consumption of the closing ].
ParseListLoop(toks, p, elems) ==
    IF CurType(toks, p) \in {"RBRACKET", "EOF"}
    THEN PR(ListLiteral(elems), IF CurType(toks, p) = "RBRACKET" THEN p + 1 ELSE p)
    ELSE ParseListElem(toks, p, parseValue(toks, skipNewlines(toks, p)), elems)

parseList(toks, p) == ParseListLoop(toks, p + 1, <<>>)

parseValue(toks, p) ==
    CASE CurType(toks, p) = "STRING"     -> PR(StringLiteral(Cur(toks, p).lit), p + 1)
      [] CurType(toks, p) = "NUMBER"     ->
            PR(NumberLiteral(ParseFloat(Cur(toks, p).lit).val), p + 1)
      [] CurType(toks, p) = "BOOLEAN"    ->
            PR(BooleanLiteral(Cur(toks, p).lit = <<"T", "r", "u", "e">>), p + 1)
      [] CurType(toks, p) = "LBRACKET"   -> parseList(toks, p)
      [] CurType(toks, p) = "IDENTIFIER" -> PR(Identifier(Cur(toks, p).lit), p + 1)
      [] OTHER                           -> parseUnquotedString(toks, p)

\* The Assignment built from the parsed value v.
AssignmentOf(name, v) == PR(Assignment(name, v.node), v.pos)

parseAssignment(toks, p) ==
    AssignmentOf(Cur(toks, p).lit,
                 parseValue(toks, IF CurType(toks, p + 1) = "ASSIGN" THEN p + 2 ELSE p + 1))

parseAskStatement(toks, p) ==
    IF CurType(toks, p + 1) # "STRING"
    THEN PR(AskStatement(<<>>), p + 1)
    ELSE PR(AskStatement(Cur(toks, p + 1).lit), p + 2)

ConditionOperator(type) ==
    CASE type = "EQ"  -> <<"=", "=">>
      [] type = "NEQ" -> <<"!", "=">>
      [] type = "LT"  -> <<"<">>
      [] type = "GT"  -> <<">">>
      [] type = "LTE" -> <<"<", "=">>
      [] type = "GTE" -> <<">", "=">>
      [] OTHER        -> <<"=", "=">>

ConditionOf(left, op, right) ==
    [cond |-> Condition(left.node, op, right.node), pos |-> right.pos]

\* parseCondition after the left value: the operator token is consumed
\* whatever it is, and the right value follows.
ConditionAfterLeft(toks, left) ==
    ConditionOf(left, ConditionOperator(CurType(toks, left.pos)),
                parseValue(toks, left.pos + 1))

parseCondition(toks, p) == ConditionAfterLeft(toks, parseValue(toks, p))

parseShellCommand(toks, p) ==
    IF CurType(toks, p + 1) # "STRING"
    THEN PR(ShellCommand(<<>>), p + 1)
    ELSE PR(ShellCommand(Cur(toks, p + 1).lit), p + 2)

parseMCPCall(toks, p) ==
    IF CurType(toks, p + 3) = "STRING"
    THEN PR(MCPCall(Cur(toks, p).lit, Cur(toks, p + 2).lit, Cur(toks, p + 3).lit), p + 4)
    ELSE PR(MCPCall(Cur(toks, p).lit, Cur(toks, p + 2).lit, <<>>), p + 3)

parseIncrementDecrement(toks, p) ==
    PR(IncrementDecrement(Cur(toks, p).lit, Cur(toks, p + 1).lit), p + 2)

RECURSIVE parseStatement(_, _)
RECURSIVE ParseBlock(_, _, _)

\* The statement r was parsed inside a block: it is kept unless it is nil.
ParseBlockNext(toks, r, acc) ==
    ParseBlock(toks, r.pos, IF r.node.kind # "nil" THEN Append(acc, r.node) ELSE acc)

\* Inside the loop, after skipNewlines.
ParseBlockAt(toks, q, acc) ==
    IF CurType(toks, q) = "RBRACE"
    THEN [stmts |-> acc, pos |-> q + 1]
    ELSE ParseBlockNext(toks, parseStatement(toks, q), acc)

\* The statement loop of a block body, written five times in the source
\* (if, else, repeat, before, after), and the consumption of the closing }.
\* p is the index after the opening {.
ParseBlock(toks, p, acc) ==
    IF CurType(toks, p) \in {"RBRACE", "EOF"}
    THEN [stmts |-> acc, pos |-> IF CurType(toks, p) = "RBRACE" THEN p + 1 ELSE p]
    ELSE ParseBlockAt(toks, skipNewlines(toks, p), acc)

\* After `else` and the newlines that follow it.
ElseBody(toks, q) ==
    IF CurType(toks, q) = "LBRACE"
    THEN ParseBlock(toks, q + 1, <<>>)
    ELSE [stmts |-> <<>>, pos |-> q]

\* After the consequence block and the newlines that follow it.
ElsePart(toks, q) ==
    IF CurType(toks, q) = "ELSE"
    THEN ElseBody(toks, skipNewlines(toks, q + 1))
    ELSE [stmts |-> <<>>, pos |-> q]

IfOf(c, consequence, alt) == PR(IfStatement(c, consequence, alt.stmts), alt.pos)

IfAfterConsequence(toks, c, cons) ==
    IfOf(c, cons.stmts, ElsePart(toks, skipNewlines(toks, cons.pos)))

\* After the condition c and the newlines that follow it: without { the
\* function returns a nil *IfStatement.
IfBody(toks, c, q) ==
    IF CurType(toks, q) # "LBRACE"
    THEN PR(NilIfStatement, q)
    ELSE IfAfterConsequence(toks, c, ParseBlock(toks, q + 1, <<>>))

IfAfterCondition(toks, c) == IfBody(toks, c.cond, skipNewlines(toks, c.pos))

parseIfStatement(toks, p) == IfAfterCondition(toks, parseCondition(toks, p + 1))

RepeatOf(count, body) == PR(RepeatStatement(count, body.stmts), body.pos)

\* After the optional count and the newlines that follow it: without { the
\* function returns a nil *RepeatStatement.
RepeatBody(toks, count, q) ==
    IF CurType(toks, q) # "LBRACE"
    THEN PR(NilRepeatStatement, q)
    ELSE RepeatOf(count, ParseBlock(toks, q + 1, <<>>))

parseRepeatStatement(toks, p) ==
    IF CurType(toks, p + 1) = "NUMBER"
    THEN RepeatBody(toks, Atoi(Cur(toks, p + 1).lit), skipNewlines(toks, p + 2))
    ELSE RepeatBody(toks, 1, skipNewlines(toks, p + 1))

BeforeOf(b) == PR(BeforeBlock(b.stmts), b.pos)

BeforeBody(toks, q) ==
    IF CurType(toks, q) # "LBRACE"
    THEN PR(BeforeBlock(<<>>), q)
    ELSE BeforeOf(ParseBlock(toks, q + 1, <<>>))

parseBeforeBlock(toks, p) == BeforeBody(toks, skipNewlines(toks, p + 1))

AfterOf(b) == PR(AfterBlock(b.stmts), b.pos)

AfterBody(toks, q) ==
    IF CurType(toks, q) # "LBRACE"
    THEN PR(AfterBlock(<<>>), q)
    ELSE AfterOf(ParseBlock(toks, q + 1, <<>>))

parseAfterBlock(toks, p) == AfterBody(toks, skipNewlines(toks, p + 1))

parseStatement(toks, p) ==
    CASE CurType(toks, p) = "ASK"    -> parseAskStatement(toks, p)
      [] CurType(toks, p) = "IF"     -> parseIfStatement(toks, p)
      [] CurType(toks, p) = "REPEAT" -> parseRepeatStatement(toks, p)
      [] CurType(toks, p) = "BEFORE" -> parseBeforeBlock(toks, p)
      [] CurType(toks, p) = "AFTER"  -> parseAfterBlock(toks, p)
      [] CurType(toks, p) = "SHELL"  -> parseShellCommand(toks, p)
      [] CurType(toks, p) = "IDENTIFIER" ->
            CASE PeekType(toks, p) = "ASSIGN" -> parseAssignment(toks, p)
              [] PeekType(toks, p) = "DOT"    -> parseMCPCall(toks, p)
              [] PeekType(toks, p) \in {"PLUSPLUS", "MINUSMINUS"} ->
                    parseIncrementDecrement(toks, p)
              [] OTHER -> parseAssignment(toks, p)
      [] OTHER -> PR(NilNode, p + 1)

RECURSIVE ParseLoop(_, _, _)

\* The statement r was parsed at top level: it is kept unless it is nil.
ParseLoopNext(toks, r, acc) ==
    ParseLoop(toks, skipNewlines(toks, r.pos),
              IF r.node.kind # "nil" THEN Append(acc, r.node) ELSE acc)

ParseLoopAt(toks, q, acc) ==
    IF CurType(toks, q) = "EOF"
    THEN acc
    ELSE ParseLoopNext(toks, parseStatement(toks, q), acc)

\* The loop of Parser.Parse.
ParseLoop(toks, p, acc) ==
    IF CurType(toks, p) = "EOF"
    THEN acc
    ELSE ParseLoopAt(toks, skipNewlines(toks, p), acc)

\* Parser.Parse on a fresh parser: Program.Statements.
Parse(toks) == ParseLoop(toks, 1, <<>>)

ParseScript(text) == Parse(Tokens(text))

(***************************************************************************)
(* VALUES.  An interface{} held by the environment is tagged with its      *)
(* dynamic type.                                                           *)
(***************************************************************************)
StrV(s) == [t |-> "string", s |-> s]

NumV(n) == [t |-> "float64", n |-> n]

BoolV(b) == [t |-> "bool", b |-> b]

ListV(xs) == [t |-> "list", xs |-> xs]

NilV == [t |-> "nil"]

Bound(env, name) == name \in DOMAIN env

Store(env, name, v) ==
    [x \in (DOMAIN env) \cup {name} |-> IF x = name THEN v ELSE env[x]]

EmptyEnv == [x \in {} |-> NilV]

RECURSIVE evalValue(_, _)
evalValue(node, env) ==
    CASE node.kind = "StringLiteral"  -> StrV(node.str)
      [] node.kind = "NumberLiteral"  -> NumV(node.num)
      [] node.kind = "BooleanLiteral" -> BoolV(node.bool)
      [] node.kind = "Identifier"     ->
            IF Bound(env, node.name) THEN env[node.name] ELSE StrV(node.name)
      [] node.kind = "ListLiteral"    ->
            ListV([i \in 1..Len(node.elements) |-> evalValue(node.elements[i], env)])
      [] OTHER                        -> NilV

(***************************************************************************)
(* fmt's %d and %g / %v.                                                   *)
(***************************************************************************)
RECURSIVE NatDigits(_)
NatDigits(n) ==
    IF n < 10 THEN <<DigitChars[n + 1]>>
    ELSE NatDigits(n \div 10) \o <<DigitChars[(n % 10) + 1]>>

FormatInt(n) == IF n < 0 THEN <<"-">> \o NatDigits(-n) ELSE NatDigits(n)

RECURSIVE StripZeros(_)
StripZeros(ds) ==
    IF Len(ds) > 1 /\ ds[Len(ds)] = "0"
    THEN StripZeros(SubSeq(ds, 1, Len(ds) - 1))
    ELSE ds

\* strconv's shortest 'g' format of the float64 n / Scale: %e when the
\* decimal exponent is below -4 (never, for tenths) or at least 6.
FormatG(n) ==
    LET a    == IF n < 0 THEN -n ELSE n
        sign == IF n < 0 THEN <<"-">> ELSE <<>>
        all  == NatDigits(a)           \* the digits of the value times Scale
        dp   == Len(all) - 1           \* digits before the decimal point
        ds   == StripZeros(all)
        exp  == dp - 1
        expDigits == IF exp < 10 THEN <<"0">> \o NatDigits(exp) ELSE NatDigits(exp)
        ipart == a \div Scale
        fpart == a % Scale
    IN  IF a = 0 THEN <<"0">>
        ELSE IF exp >= 6
        THEN sign \o <<ds[1]>>
                  \o (IF Len(ds) > 1 THEN <<".">> \o SubSeq(ds, 2, Len(ds)) ELSE <<>>)
                  \o <<"e", "+">> \o expDigits
        ELSE sign \o NatDigits(ipart)
                  \o (IF fpart # 0 THEN <<".">> \o NatDigits(fpart) ELSE <<>>)

RECURSIVE Join(_, _)
Join(parts, sep) ==
    IF parts = <<>> THEN <<>>
    ELSE IF Len(parts) = 1 THEN parts[1]
    ELSE parts[1] \o sep \o Join(Tail(parts), sep)

\* fmt.Sprintf("%v", v)
RECURSIVE SprintV(_)
SprintV(v) ==
    CASE v.t = "string"  -> v.s
      [] v.t = "float64" -> FormatG(v.n)
      [] v.t = "bool"    -> IF v.b THEN <<"t", "r", "u", "e">> ELSE <<"f", "a", "l", "s", "e">>
      [] v.t = "list"    ->
            <<"[">> \o Join([i \in 1..Len(v.xs) |-> SprintV(v.xs[i])], <<" ">>) \o <<"]">>
      [] OTHER           -> <<"<", "n", "i", "l", ">">>

\* Variant of toFloat that coerces every string to 0.
toFloat_StringsZero(v) ==
    CASE v.t = "float64" -> v.n
      [] v.t = "bool"    -> IF v.b THEN Scale ELSE 0
      [] OTHER           -> 0

toFloat(v) ==
    CASE v.t = "float64" -> v.n
      [] v.t = "string"  -> ParseFloat(v.s).val
      [] v.t = "bool"    -> IF v.b THEN Scale ELSE 0
      [] OTHER           -> 0

evalCondition(c, env) ==
    LET left  == evalValue(c.left, env)
        right == evalValue(c.right, env)
    IN  CASE c.operator = <<"=", "=">> -> SprintV(left) = SprintV(right)
          [] c.operator = <<"!", "=">> -> SprintV(left) # SprintV(right)
          [] c.operator = <<"<">>  -> toFloat(left) < toFloat(right)
          [] c.operator = <<">">>  -> toFloat(left) > toFloat(right)
          [] c.operator = <<"<", "=">> -> toFloat(left) <= toFloat(right)
          [] c.operator = <<">", "=">> -> toFloat(left) >= toFloat(right)
          [] OTHER                -> FALSE

\* Variant of executeIncrementDecrement that treats an unbound or
\* non-numeric variable as 0.
executeIncrementDecrement_FromZero(incDec, env) ==
    LET n == IF Bound(env, incDec.name) /\ env[incDec.name].t = "float64"
             THEN env[incDec.name].n ELSE 0
    IN  IF incDec.operator = <<"+", "+">>
        THEN Store(env, incDec.name, NumV(n + Scale))
        ELSE Store(env, incDec.name, NumV(n - Scale))

executeIncrementDecrement(incDec, env) ==
    IF Bound(env, incDec.name) /\ env[incDec.name].t = "float64"
    THEN IF incDec.operator = <<"+", "+">>
         THEN Store(env, incDec.name, NumV(env[incDec.name].n + Scale))
         ELSE Store(env, incDec.name, NumV(env[incDec.name].n - Scale))
    ELSE env

(***************************************************************************)
(* The String methods of the AST nodes and Program.String.  The String of  *)
(* an if or repeat statement dereferences its receiver: on a nil pointer   *)
(* it panics.                                                              *)
(***************************************************************************)
RECURSIVE NodeString(_)
NodeString(n) ==
    CASE n.kind = "Assignment"     -> n.name \o <<" ", "=", " ">> \o NodeString(n.value)
      [] n.kind = "StringLiteral"  -> <<"\"">> \o n.str \o <<"\"">>
      [] n.kind = "NumberLiteral"  -> FormatG(n.num)
      [] n.kind = "BooleanLiteral" -> IF n.bool THEN <<"T", "r", "u", "e">> ELSE <<"F", "a", "l", "s", "e">>
      [] n.kind = "Identifier"     -> n.name
      [] n.kind = "ListLiteral"    ->
            <<"[">> \o Join([i \in 1..Len(n.elements) |-> NodeString(n.elements[i])],
                            <<",", " ">>) \o <<"]">>
      [] n.kind = "AskStatement"   -> <<"a", "s", "k", " ", "\"">> \o n.instruction \o <<"\"">>
      [] n.kind = "IfStatement"    ->
            <<"i", "f", " ">> \o NodeString(n.condition.left) \o <<" ">> \o n.condition.operator
                     \o <<" ">> \o NodeString(n.condition.right) \o <<" ", "{", " ", ".", ".", ".", " ", "}">>
      [] n.kind = "RepeatStatement" ->
            <<"r", "e", "p", "e", "a", "t", " ">> \o FormatInt(n.count) \o <<" ", "{", " ", ".", ".", ".", " ", "}">>
      [] n.kind = "BeforeBlock"    -> <<"b", "e", "f", "o", "r", "e", " ", "{", " ", ".", ".", ".", " ", "}">>
      [] n.kind = "AfterBlock"     -> <<"a", "f", "t", "e", "r", " ", "{", " ", ".", ".", ".", " ", "}">>
      [] n.kind = "ShellCommand"   -> <<"s", "h", "e", "l", "l", " ", "\"">> \o n.command \o <<"\"">>
      [] n.kind = "MCPCall"        ->
            IF n.arg # <<>>
            THEN n.service \o <<".">> \o n.method \o <<" ", "\"">> \o n.arg \o <<"\"">>
            ELSE n.service \o <<".">> \o n.method
      [] n.kind = "IncrementDecrement" -> n.name \o n.operator
      [] OTHER -> <<>>

RECURSIVE ProgramString(_)
ProgramString(stmts) ==
    IF stmts = <<>> THEN <<>>
    ELSE NodeString(Head(stmts)) \o <<"\n">> \o ProgramString(Tail(stmts))

\* Whether Program.String() panics: a top-level statement is a nil pointer.
StringPanics(stmts) == \E i \in 1..Len(stmts) : IsNilPtr(stmts[i])

(***************************************************************************)
(* INTERPRETER: the prompt of an ask statement.                            *)
(***************************************************************************)
buildContext(env) == env

formatValue(v) ==
    IF v.t = "list"
    THEN Join([i \in 1..Len(v.xs) |-> SprintV(v.xs[i])], <<",", " ">>)
    ELSE SprintV(v)

\* The keys buildPrompt renders, in its fixed order; ai and tools go through
\* formatValue, the others through %v.
PromptKeys ==
    <<<<"p", "r", "o", "j", "e", "c", "t">>, <<"v", "i", "c", "t", "i", "m">>, <<"f", "r", "o", "n", "t", "e", "n", "d">>, <<"b", "a", "c", "k", "e", "n", "d">>,
      <<"d", "b">>, <<"a", "i">>, <<"t", "o", "o", "l", "s">>, <<"t", "a", "s", "k">>>>

RECURSIVE PromptLines(_, _)
PromptLines(keys, context) ==
    IF keys = <<>> THEN <<>>
    ELSE LET k == Head(keys)
             rest == PromptLines(Tail(keys), context)
         IN  IF Bound(context, k)
             THEN <<[key |-> k,
                     text |-> IF k \in {<<"a", "i">>, <<"t", "o", "o", "l", "s">>}
                              THEN formatValue(context[k])
                              ELSE SprintV(context[k])]>> \o rest
             ELSE rest

\* The prompt as its variable parts: the rendered context lines and the step.
buildPrompt(instruction, context) ==
    [lines |-> PromptLines(PromptKeys, context), step |-> instruction]

NoPrompt == [lines |-> <<>>, step |-> <<>>]

(***************************************************************************)
(* INTERPRETER: the leaf statements.  Each operator gives the outcomes the *)
(* statement can have: the external collaborator it invokes ("none" when   *)
(* it invokes nothing), whether that call succeeded, and the error the     *)
(* function returns (<<>> is nil).                                         *)
(***************************************************************************)
Outcome(ext, ok, e) == [ext |-> ext, ok |-> ok, err |-> e]

\* Variant of callClaudeCode whose failure is returned as an error.
callClaudeCode_Fatal ==
    {Outcome("claude", TRUE, <<>>), Outcome("claude", FALSE, <<"claude failed">>)}

callClaudeCode == {Outcome("claude", TRUE, <<>>), Outcome("claude", FALSE, <<>>)}

executeAsk(dry) ==
    IF dry THEN {Outcome("none", TRUE, <<>>)} ELSE callClaudeCode

\* Variant of executeShell that logs a failing command and returns nil.
executeShell_Lenient(dry) ==
    IF dry THEN {Outcome("none", TRUE, <<>>)}
    ELSE {Outcome("sh", TRUE, <<>>), Outcome("sh", FALSE, <<>>)}

executeShell(dry) ==
    IF dry THEN {Outcome("none", TRUE, <<>>)}
    ELSE {Outcome("sh", TRUE, <<>>), Outcome("sh", FALSE, <<"shell command failed">>)}

\* json.Unmarshal of the argument into a map[string]string, and the lookup
\* of "path" in it.  The decoder covers JSON objects whose members are
\* "key": "value" pairs of strings without escape sequences, with optional
\* white space between the tokens; it rejects every other text (a text of
\* another JSON form does not decode into a map of strings either).
RECURSIVE JsonSkip(_, _)
JsonSkip(arg, i) ==
    IF i <= Len(arg) /\ arg[i] \in {" ", "\t", "\n", "\r"}
    THEN JsonSkip(arg, i + 1)
    ELSE i

\* A JSON string whose opening quote is before arg[i]: its text and the
\* position after its closing quote; ok is FALSE when the string is not
\* closed or holds an escape or a control character.
RECURSIVE JsonString(_, _, _)
JsonString(arg, i, s) ==
    IF i > Len(arg) \/ arg[i] \in {"\\", "\n", "\t", "\r"}
    THEN [ok |-> FALSE, str |-> s, pos |-> i]
    ELSE IF arg[i] = "\"" THEN [ok |-> TRUE, str |-> s, pos |-> i + 1]
    ELSE JsonString(arg, i + 1, Append(s, arg[i]))

\* The members of an object from position i (after "{" or ","), with the
\* keys decoded so far: the keys of the object, or ok = FALSE when the text
\* is not a JSON object of strings.  "}" may come instead of a member only
\* when the object is empty (first).
RECURSIVE JsonMembers(_, _, _, _)
JsonMembers(arg, i, keys, first) ==
    LET bad == [ok |-> FALSE, keys |-> {}]
        At(n, c) == n <= Len(arg) /\ arg[n] = c
        AtEnd(n) == JsonSkip(arg, n) > Len(arg)
        j  == JsonSkip(arg, i)
        k  == JsonString(arg, j + 1, <<>>)
        c  == JsonSkip(arg, k.pos)
        v0 == JsonSkip(arg, c + 1)
        v  == JsonString(arg, v0 + 1, <<>>)
        e  == JsonSkip(arg, v.pos)
    IN  IF At(j, "}")
        THEN IF first /\ AtEnd(j + 1) THEN [ok |-> TRUE, keys |-> keys] ELSE bad
        ELSE IF ~At(j, "\"") THEN bad
        ELSE IF ~k.ok \/ ~At(c, ":") \/ ~At(v0, "\"") THEN bad
        ELSE IF ~v.ok THEN bad
        ELSE IF At(e, ",") THEN JsonMembers(arg, e + 1, keys \cup {k.str}, FALSE)
        ELSE IF At(e, "}") /\ AtEnd(e + 1)
             THEN [ok |-> TRUE, keys |-> keys \cup {k.str}]
             ELSE bad

JsonHasPath(arg) ==
    \E j \in {JsonSkip(arg, 1)} :
        /\ j <= Len(arg)
        /\ arg[j] = "{"
        /\ \E r \in {JsonMembers(arg, j + 1, {}, TRUE)} :
               r.ok /\ <<"p", "a", "t", "h">> \in r.keys

\* Variant of executeMCP for which a fs.write argument that does not decode
\* into a map with a "path" is an error.
executeMCP_StrictJson(mcp, dry) ==
    IF dry THEN {Outcome("none", TRUE, <<>>)}
    ELSE IF mcp.service = <<"f", "s">> /\ mcp.method = <<"w", "r", "i", "t", "e">>
    THEN IF JsonHasPath(mcp.arg)
         THEN {Outcome("fs.write", TRUE, <<>>),
               Outcome("fs.write", FALSE, <<"fs.write failed">>)}
         ELSE {Outcome("none", TRUE, <<"fs.write failed">>)}
    ELSE {Outcome("none", TRUE, <<>>)}

\* Variant of executeMCP without the dry-run test for fs.mkdir.
executeMCP_MkdirInDryRun(mcp, dry) ==
    IF mcp.service = <<"f", "s">> /\ mcp.method = <<"m", "k", "d", "i", "r">>
    THEN {Outcome("fs.mkdir", TRUE, <<>>),
          Outcome("fs.mkdir", FALSE, <<"fs.mkdir failed">>)}
    ELSE {Outcome("none", TRUE, <<>>)}

executeMCP(mcp, dry) ==
    IF dry THEN {Outcome("none", TRUE, <<>>)}
    ELSE CASE mcp.service = <<"s", "h", "e", "l", "l">> ->
                IF mcp.method = <<"r", "u", "n">>
                THEN {Outcome("sh", TRUE, <<>>),
                      Outcome("sh", FALSE, <<"MCP command failed">>)}
                ELSE {Outcome("none", TRUE, <<>>)}
           [] mcp.service = <<"f", "s">> ->
                CASE mcp.method = <<"w", "r", "i", "t", "e">> ->
                        IF JsonHasPath(mcp.arg)
                        THEN {Outcome("fs.write", TRUE, <<>>),
                              Outcome("fs.write", FALSE, <<"fs.write failed">>)}
                        ELSE {Outcome("none", TRUE, <<>>)}
                  [] mcp.method = <<"m", "k", "d", "i", "r">> ->
                        {Outcome("fs.mkdir", TRUE, <<>>),
                         Outcome("fs.mkdir", FALSE, <<"fs.mkdir failed">>)}
                  [] mcp.method = <<"r", "e", "a", "d">> ->
                        {Outcome("fs.read", TRUE, <<>>),
                         Outcome("fs.read", FALSE, <<"fs.read failed">>)}
                  [] OTHER -> {Outcome("none", TRUE, <<>>)}
           [] mcp.service = <<"b", "r", "o", "w", "s", "e", "r">> -> {Outcome("none", TRUE, <<>>)}
           [] OTHER -> {Outcome("none", TRUE, <<>>)}

\* Variant of executeHook that also executes an ask statement.
executeHook_AlsoAsk(hook, dry) ==
    CASE hook.kind = "ShellCommand" -> executeShell(dry)
      [] hook.kind = "MCPCall"      -> executeMCP(hook, dry)
      [] hook.kind = "AskStatement" -> executeAsk(dry)
      [] OTHER                      -> {}

\* executeHook: only a ShellCommand or an MCPCall does anything.
executeHook(hook, dry) ==
    CASE hook.kind = "ShellCommand" -> executeShell(dry)
      [] hook.kind = "MCPCall"      -> executeMCP(hook, dry)
      [] OTHER                      -> {}

\* One entry of the trace: a leaf statement that was executed.  `at` is the
\* index of the hook in its hook list, or of the top-level statement that
\* the main loop of Execute is executing.
Ev(phase, at, stmt, o, prompt) ==
    [phase |-> phase, at |-> at, stmt |-> stmt, ext |-> o.ext, ok |-> o.ok,
     prompt |-> prompt]

(***************************************************************************)
(* INTERPRETER: Execute.                                                   *)
(***************************************************************************)
\* Variant of FirstPass that registers the hooks and leaves the assignments
\* to the main pass.
RECURSIVE FirstPass_HooksOnly(_, _)
FirstPass_HooksOnly(stmts, st) ==
    IF stmts = <<>> THEN st
    ELSE LET s == Head(stmts)
         IN  FirstPass_HooksOnly(Tail(stmts),
                CASE s.kind = "BeforeBlock" ->
                        [st EXCEPT !.beforeHooks = @ \o s.statements]
                  [] s.kind = "AfterBlock" ->
                        [st EXCEPT !.afterHooks = @ \o s.statements]
                  [] OTHER -> st)

\* The first pass of Execute over the top-level statements.
RECURSIVE FirstPass(_, _)
FirstPass(stmts, st) ==
    IF stmts = <<>> THEN st
    ELSE LET s == Head(stmts)
         IN  FirstPass(Tail(stmts),
                CASE s.kind = "Assignment" ->
                        [st EXCEPT !.variables =
                            Store(st.variables, s.name, evalValue(s.value, st.variables))]
                  [] s.kind = "BeforeBlock" ->
                        [st EXCEPT !.beforeHooks = @ \o s.statements]
                  [] s.kind = "AfterBlock" ->
                        [st EXCEPT !.afterHooks = @ \o s.statements]
                  [] OTHER -> st)

RECURSIVE Hangs(_)
\* Whether Parse never returns: a parseList loop inside it never ends.
NodeHangs(n) ==
    CASE n.kind = "Hang" -> TRUE
      [] n.kind = "Assignment" -> n.value.kind = "Hang"
      [] n.kind \in {"IfStatement", "RepeatStatement"} /\ n.nilptr -> FALSE
      [] n.kind = "IfStatement" ->
            \/ n.condition.left.kind = "Hang" \/ n.condition.right.kind = "Hang"
            \/ Hangs(n.consequence) \/ Hangs(n.alternative)
      [] n.kind = "RepeatStatement" -> Hangs(n.body)
      [] n.kind \in {"BeforeBlock", "AfterBlock"} -> Hangs(n.statements)
      [] OTHER -> FALSE

Hangs(stmts) == \E i \in 1..Len(stmts) : NodeHangs(stmts[i])

Frame(stmts, count) == [stmts |-> stmts, idx |-> 1, j |-> 0, count |-> count]

Top == stack[Len(stack)]

InMain == pc = "main" /\ stack # <<>>

AtStmt == InMain /\ Top.idx <= Len(Top.stmts)

CurStmt == Top.stmts[Top.idx]

Advanced == [stack EXCEPT ![Len(stack)].idx = @ + 1]

\* The index of the top-level statement the main loop of Execute is at: the
\* bottom frame has moved past the statement whose body is being run.
TopLevelAt == IF Len(stack) = 1 THEN stack[1].idx ELSE stack[1].idx - 1

\* main: lex and parse the script.
ParseOutcome(prog) ==
    IF Hangs(prog)
    THEN [pc |-> "hang", program |-> <<>>]
    ELSE [pc |-> "execute", program |-> prog]

Main_Parse ==
    /\ pc = "parse"
    /\ \E out \in {ParseOutcome(ParseScript(script))} :
           /\ pc' = out.pc
           /\ program' = out.program
    /\ UNCHANGED <<script, pieces, tokens, lexPos, call,
                   dryRun, variables, beforeHooks, afterHooks, hookIdx,
                   stack, trace, err, printed, reparsed, cond, condResult>>

Execute_FirstPass ==
    /\ pc = "execute"
    /\ \E st \in {FirstPass(program, [variables |-> variables,
                                        beforeHooks |-> beforeHooks,
                                        afterHooks |-> afterHooks])} :
           /\ variables' = st.variables
           /\ beforeHooks' = st.beforeHooks
           /\ afterHooks' = st.afterHooks
    /\ pc' = "before"
    /\ hookIdx' = 1
    /\ UNCHANGED <<script, pieces, tokens, lexPos, call,
                   program, dryRun, stack, trace, err, printed, reparsed,
                   cond, condResult>>

\* Variant of RunHook in which a failing hook is recorded and the loop goes on
\* to the next hook.
RunHook_Continue(phase, hooks, wrap) ==
    /\ hookIdx <= Len(hooks)
    /\ \E o \in executeHook(hooks[hookIdx], dryRun) \cup
                {Outcome("none", TRUE, <<>>)} :
           /\ trace' = Append(trace, Ev(phase, hookIdx, hooks[hookIdx], o, NoPrompt))
           /\ hookIdx' = hookIdx + 1
           /\ UNCHANGED <<pc, err>>
    /\ UNCHANGED <<script, pieces, tokens, lexPos, call,
                   program, dryRun, variables, beforeHooks, afterHooks,
                   stack, printed, reparsed, cond, condResult>>

\* One iteration of a hook loop of Execute.
RunHook(phase, hooks, wrap) ==
    /\ hookIdx <= Len(hooks)
    /\ LET hook == hooks[hookIdx]
           outs == executeHook(hook, dryRun)
       IN  IF outs = {}
           THEN /\ hookIdx' = hookIdx + 1
                /\ UNCHANGED <<pc, trace, err>>
           ELSE \E o \in outs :
                    /\ trace' = Append(trace, Ev(phase, hookIdx, hook, o, NoPrompt))
                    /\ IF o.err # <<>>
                       THEN /\ err' = <<wrap>> \o o.err
                            /\ pc' = "returned"
                            /\ UNCHANGED hookIdx
                       ELSE /\ hookIdx' = hookIdx + 1
                            /\ UNCHANGED <<pc, err>>
    /\ UNCHANGED <<script, pieces, tokens, lexPos, call,
                   program, dryRun, variables, beforeHooks, afterHooks,
                   stack, printed, reparsed, cond, condResult>>

Execute_BeforeHook ==
    /\ pc = "before"
    /\ RunHook("before", beforeHooks, "before hook failed")

Execute_BeforeHooksDone ==
    /\ pc = "before"
    /\ hookIdx > Len(beforeHooks)
    /\ pc' = "main"
    /\ stack' = <<Frame(program, 1)>>
    /\ UNCHANGED <<script, pieces, tokens, lexPos, call,
                   program, dryRun, variables, beforeHooks, afterHooks,
                   hookIdx, trace, err, printed, reparsed, cond, condResult>>

\* Variant of ExecuteStatement_Skip in which the main pass evaluates an
\* Assignment and binds its variable.
ExecuteStatement_Skip_Binds ==
    /\ AtStmt
    /\ CurStmt.kind \in {"Assignment", "BeforeBlock", "AfterBlock"}
    /\ stack' = Advanced
    /\ variables' = IF CurStmt.kind = "Assignment"
                    THEN Store(variables, CurStmt.name, evalValue(CurStmt.value, variables))
                    ELSE variables
    /\ UNCHANGED <<script, pieces, tokens, lexPos, call,
                   program, pc, dryRun, beforeHooks, afterHooks,
                   hookIdx, trace, err, printed, reparsed, cond, condResult>>

\* executeStatement on an Assignment, a BeforeBlock or an AfterBlock.
ExecuteStatement_Skip ==
    /\ AtStmt
    /\ CurStmt.kind \in {"Assignment", "BeforeBlock", "AfterBlock"}
    /\ stack' = Advanced
    /\ UNCHANGED <<script, pieces, tokens, lexPos, call,
                   program, pc, dryRun, variables, beforeHooks, afterHooks,
                   hookIdx, trace, err, printed, reparsed, cond, condResult>>

\* A leaf statement of the main pass with outcome o: an error returned by it
\* is returned by every enclosing loop and by Execute.
MainLeaf(o, prompt) ==
    /\ trace' = Append(trace, Ev("main", TopLevelAt, CurStmt, o, prompt))
    /\ IF o.err # <<>>
       THEN /\ err' = o.err
            /\ pc' = "returned"
            /\ stack' = <<>>
       ELSE /\ stack' = Advanced
            /\ UNCHANGED <<pc, err>>

ExecuteStatement_Ask ==
    /\ AtStmt
    /\ CurStmt.kind = "AskStatement"
    /\ \E o \in executeAsk(dryRun) :
           MainLeaf(o, buildPrompt(CurStmt.instruction, buildContext(variables)))
    /\ UNCHANGED <<script, pieces, tokens, lexPos, call,
                   program, dryRun, variables, beforeHooks, afterHooks,
                   hookIdx, printed, reparsed, cond, condResult>>

ExecuteStatement_Shell ==
    /\ AtStmt
    /\ CurStmt.kind = "ShellCommand"
    /\ \E o \in executeShell(dryRun) : MainLeaf(o, NoPrompt)
    /\ UNCHANGED <<script, pieces, tokens, lexPos, call,
                   program, dryRun, variables, beforeHooks, afterHooks,
                   hookIdx, printed, reparsed, cond, condResult>>

ExecuteStatement_MCP ==
    /\ AtStmt
    /\ CurStmt.kind = "MCPCall"
    /\ \E o \in executeMCP(CurStmt, dryRun) : MainLeaf(o, NoPrompt)
    /\ UNCHANGED <<script, pieces, tokens, lexPos, call,
                   program, dryRun, variables, beforeHooks, afterHooks,
                   hookIdx, printed, reparsed, cond, condResult>>

ExecuteStatement_IncDec ==
    /\ AtStmt
    /\ CurStmt.kind = "IncrementDecrement"
    /\ variables' = executeIncrementDecrement(CurStmt, variables)
    /\ trace' = Append(trace, Ev("main", TopLevelAt, CurStmt,
                                  Outcome("none", TRUE, <<>>), NoPrompt))
    /\ stack' = Advanced
    /\ UNCHANGED <<script, pieces, tokens, lexPos, call,
                   program, pc, dryRun, beforeHooks, afterHooks, hookIdx,
                   err, printed, reparsed, cond, condResult>>

\* executeIf: the block chosen by the condition is run in place.
executeIf(ifStmt, env) ==
    IF evalCondition(ifStmt.condition, env)
    THEN ifStmt.consequence
    ELSE ifStmt.alternative

ExecuteStatement_If ==
    /\ AtStmt
    /\ CurStmt.kind = "IfStatement"
    /\ ~CurStmt.nilptr
    /\ stack' = Append(Advanced, Frame(executeIf(CurStmt, variables), 1))
    /\ UNCHANGED <<script, pieces, tokens, lexPos, call,
                   program, pc, dryRun, variables, beforeHooks, afterHooks,
                   hookIdx, trace, err, printed, reparsed, cond, condResult>>

ExecuteStatement_Repeat ==
    /\ AtStmt
    /\ CurStmt.kind = "RepeatStatement"
    /\ ~CurStmt.nilptr
    /\ stack' = IF CurStmt.count > 0
                THEN Append(Advanced, Frame(CurStmt.body, CurStmt.count))
                ELSE Advanced
    /\ UNCHANGED <<script, pieces, tokens, lexPos, call,
                   program, pc, dryRun, variables, beforeHooks, afterHooks,
                   hookIdx, trace, err, printed, reparsed, cond, condResult>>

\* executeIf / executeRepeat called on a nil pointer: the field read panics.
ExecuteStatement_NilDeref ==
    /\ AtStmt
    /\ IsNilPtr(CurStmt)
    /\ pc' = "panic"
    /\ stack' = <<>>
    /\ UNCHANGED <<script, pieces, tokens, lexPos, call,
                   program, dryRun, variables, beforeHooks, afterHooks,
                   hookIdx, trace, err, printed, reparsed, cond, condResult>>

\* Variant of LoopEnd whose repeat loop tests j <= count.
LoopEnd_OneMore ==
    /\ InMain
    /\ Top.idx > Len(Top.stmts)
    /\ IF Top.j + 1 <= Top.count /\ Len(stack) > 1
       THEN /\ stack' = [stack EXCEPT ![Len(stack)].idx = 1, ![Len(stack)].j = @ + 1]
            /\ UNCHANGED <<pc, hookIdx>>
       ELSE /\ stack' = SubSeq(stack, 1, Len(stack) - 1)
            /\ IF Len(stack) = 1
               THEN pc' = "after" /\ hookIdx' = 1
               ELSE UNCHANGED <<pc, hookIdx>>
    /\ UNCHANGED <<script, pieces, tokens, lexPos, call,
                   program, dryRun, variables, beforeHooks, afterHooks,
                   trace, err, printed, reparsed, cond, condResult>>

\* A statement loop reached its end: the next iteration of a repeat, or the
\* return of executeIf / executeRepeat / the main loop of Execute.
LoopEnd ==
    /\ InMain
    /\ Top.idx > Len(Top.stmts)
    /\ IF Top.j + 1 < Top.count
       THEN /\ stack' = [stack EXCEPT ![Len(stack)].idx = 1, ![Len(stack)].j = @ + 1]
            /\ UNCHANGED <<pc, hookIdx>>
       ELSE /\ stack' = SubSeq(stack, 1, Len(stack) - 1)
            /\ IF Len(stack) = 1
               THEN pc' = "after" /\ hookIdx' = 1
               ELSE UNCHANGED <<pc, hookIdx>>
    /\ UNCHANGED <<script, pieces, tokens, lexPos, call,
                   program, dryRun, variables, beforeHooks, afterHooks,
                   trace, err, printed, reparsed, cond, condResult>>

Execute_AfterHook ==
    /\ pc = "after"
    /\ RunHook("after", afterHooks, "after hook failed")

\* Variant of Execute_Return in which Execute can return before the
\* after-hook loop is over.
Execute_Return_Early ==
    /\ pc = "after"
    /\ pc' = "returned"
    /\ UNCHANGED <<script, pieces, tokens, lexPos, call,
                   program, dryRun, variables, beforeHooks, afterHooks,
                   hookIdx, stack, trace, err, printed, reparsed, cond, condResult>>

Execute_Return ==
    /\ pc = "after"
    /\ hookIdx > Len(afterHooks)
    /\ pc' = "returned"
    /\ UNCHANGED <<script, pieces, tokens, lexPos, call,
                   program, dryRun, variables, beforeHooks, afterHooks,
                   hookIdx, stack, trace, err, printed, reparsed, cond, condResult>>

(***************************************************************************)
(* The scripts of the model: every concatenation of at most MaxStmts of    *)
(* these pieces of script text.  A piece that opens a block and does not   *)
(* close it takes the pieces after it as the block's body.                 *)
(***************************************************************************)
Fragments ==
    { <<"d", "b", "=", "5", "\n">>,
      <<"d", "b", "=", "a", "\n">>,
      <<"d", "b", "+", "+", "\n">>,
      <<"d", "b", " ", "-", "-", "\n">>,
      <<"d", "b", "-", "-", "\n">>,
      <<"!", "\n">>,
      <<"x", "=", "[", "1", "=", "2", "]", "\n">>,
      <<"d", "b", " ", "-", "-", "\n">>,
      <<"d", "b", "-", "-", "\n">>,
      <<"!", "\n">>,
      <<"x", "=", "[", "1", "=", "2", "]", "\n">>,
      <<"a", "s", "k", " ", "\"", "q", "\"", "\n">>,
      <<"s", "h", "e", "l", "l", " ", "\"", "s", "\"", "\n">>,
      <<"f", "s", ".", "m", "k", "d", "i", "r", " ", "\"", "d", "\"", "\n">>,
      <<"s", "h", "e", "l", "l", ".", "r", "u", "n", " ", "\"", "s", "\"", "\n">>,
      <<"i", "f", " ", "d", "b", "=", "=", "5", " ", "{", "\n", "a", "s", "k", " ", "\"", "y", "\"", "\n", "}", " ", "e", "l", "s", "e", " ", "{", "\n", "s", "h", "e", "l", "l", " ", "\"", "n", "\"", "\n", "}", "\n">>,
      <<"r", "e", "p", "e", "a", "t", " ", "2", " ", "{", "\n">>,
      <<"r", "e", "p", "e", "a", "t", " ", "0", " ", "{", "\n">>,
      <<"r", "e", "p", "e", "a", "t", " ", "{", "\n">>,
      <<"r", "e", "p", "e", "a", "t", "\n">>,
      <<"i", "f", " ", "d", "b", "\n">>,
      <<"}", "\n">>,
      <<"b", "e", "f", "o", "r", "e", " ", "{", "a", "s", "k", " ", "\"", "q", "\"", "\n", "d", "b", "=", "7", "\n", "d", "b", "+", "+", "\n", "i", "f", " ", "d", "b", "=", "=", "7", " ", "{", "}", "\n", "r", "e", "p", "e", "a", "t", " ", "{", "}", "\n", "a", "f", "t", "e", "r", " ", "{", "}", "\n", "s", "h", "e", "l", "l", " ", "\"", "b", "\"", "}", "\n">>,
      <<"b", "e", "f", "o", "r", "e", " ", "{", "s", "h", "e", "l", "l", " ", "\"", "b", "\"", "\n", "f", "s", ".", "m", "k", "d", "i", "r", " ", "\"", "d", "\"", "}", "\n", "a", "f", "t", "e", "r", " ", "{", "s", "h", "e", "l", "l", " ", "\"", "c", "\"", "}", "\n">> }

RECURSIVE Concat(_)
Concat(parts) == IF parts = <<>> THEN <<>> ELSE Head(parts) \o Concat(Tail(parts))

Scripts ==
    {Concat(fs) : fs \in UNION {[1..n -> Fragments] : n \in 0..MaxStmts}}

NoCond == Condition(StringLiteral(<<>>), <<>>, StringLiteral(<<>>))

\* NewInterpreter, and main's SetDryRun, before the script is parsed.
Init ==
    /\ script \in Scripts
    /\ dryRun \in BOOLEAN
    /\ pc = "parse"
    /\ program = <<>>
    /\ variables = EmptyEnv
    /\ beforeHooks = <<>>
    /\ afterHooks = <<>>
    /\ hookIdx = 0
    /\ stack = <<>>
    /\ trace = <<>>
    /\ err = <<>>
    /\ printed = <<>>
    /\ reparsed = <<>>
    /\ cond = NoCond
    /\ condResult = FALSE
    /\ pieces = <<>>
    /\ tokens = <<>>
    /\ lexPos = 1
    /\ call = 1

Next ==
    \/ Main_Parse
    \/ Execute_FirstPass
    \/ Execute_BeforeHook
    \/ Execute_BeforeHooksDone
    \/ ExecuteStatement_Skip
    \/ ExecuteStatement_Ask
    \/ ExecuteStatement_If
    \/ ExecuteStatement_Repeat
    \/ ExecuteStatement_NilDeref
    \/ ExecuteStatement_Shell
    \/ ExecuteStatement_MCP
    \/ ExecuteStatement_IncDec
    \/ LoopEnd
    \/ Execute_AfterHook
    \/ Execute_Return

Spec == Init /\ [][Next]_vars

(***************************************************************************)
(* evalCondition on its own: a condition and an environment are drawn and  *)
(* the condition is evaluated once.                                        *)
(***************************************************************************)
Operands ==
    { StringLiteral(<<"5">>), StringLiteral(<<"a", "b", "c">>), StringLiteral(<<"1", ".", "5">>),
      StringLiteral(<<>>), StringLiteral(<<"t", "r", "u", "e">>),
      NumberLiteral(50), NumberLiteral(10), NumberLiteral(15), NumberLiteral(0),
      NumberLiteral(10000000),
      BooleanLiteral(TRUE), BooleanLiteral(FALSE),
      Identifier(<<"d", "b">>), Identifier(<<"x">>) }

Operators == { <<"=", "=">>, <<"!", "=">>, <<"<">>, <<">">>, <<"<", "=">>, <<">", "=">> }

Conditions == {Condition(l, op, r) : l \in Operands, op \in Operators, r \in Operands}

Environments ==
    { EmptyEnv,
      Store(EmptyEnv, <<"d", "b">>, NumV(50)),
      Store(EmptyEnv, <<"d", "b">>, StrV(<<"a", "b", "c">>)),
      Store(EmptyEnv, <<"d", "b">>, BoolV(TRUE)) }

InitCond ==
    /\ cond \in Conditions
    /\ variables \in Environments
    /\ pc = "cond"
    /\ condResult = FALSE
    /\ script = <<>>
    /\ dryRun = FALSE
    /\ program = <<>>
    /\ beforeHooks = <<>>
    /\ afterHooks = <<>>
    /\ hookIdx = 0
    /\ stack = <<>>
    /\ trace = <<>>
    /\ err = <<>>
    /\ printed = <<>>
    /\ reparsed = <<>>
    /\ pieces = <<>>
    /\ tokens = <<>>
    /\ lexPos = 1
    /\ call = 1

EvalCondition ==
    /\ pc = "cond"
    /\ condResult' = evalCondition(cond, variables)
    /\ pc' = "condDone"
    /\ UNCHANGED <<script, pieces, tokens, lexPos, call,
                   program, dryRun, variables, beforeHooks, afterHooks,
                   hookIdx, stack, trace, err, printed, reparsed, cond>>

NextCond == EvalCondition

SpecCond == InitCond /\ [][NextCond]_vars

(***************************************************************************)
(* Program.String and a second parse: the parsed program is printed and    *)
(* the printed text is lexed and parsed again.                             *)
(***************************************************************************)
RoundTrip_String ==
    /\ pc = "execute"
    /\ IF StringPanics(program)
       THEN pc' = "panic" /\ UNCHANGED printed
       ELSE pc' = "printed" /\ printed' = ProgramString(program)
    /\ UNCHANGED <<script, pieces, tokens, lexPos, call,
                   program, dryRun, variables, beforeHooks, afterHooks,
                   hookIdx, stack, trace, err, reparsed, cond, condResult>>

RoundTrip_Parse ==
    /\ pc = "printed"
    /\ \E out \in {ParseOutcome(ParseScript(printed))} :
           /\ reparsed' = out.program
           /\ pc' = IF out.pc = "hang" THEN "hang" ELSE "reparsed"
    /\ UNCHANGED <<script, pieces, tokens, lexPos, call,
                   program, dryRun, variables, beforeHooks, afterHooks,
                   hookIdx, stack, trace, err, printed, cond, condResult>>

NextRoundTrip ==
    \/ Main_Parse
    \/ RoundTrip_String
    \/ RoundTrip_Parse

SpecRoundTrip == Init /\ [][NextRoundTrip]_vars

(***************************************************************************)
(* PROPERTIES.                                                             *)
(***************************************************************************)
(***************************************************************************)
(* The lexer on its own: a text is written from at most MaxPieces lexical  *)
(* pieces, each of which ends where its last token ends or with the blank  *)
(* that ends it, and NextToken is called until it returns the              *)
(* end-of-input token.  A piece records the tokens it is written for.      *)
(***************************************************************************)
MaxPieces == 3

LexPiece(text, toks) == [text |-> text, toks |-> toks]

LexPieces ==
    { LexPiece(<<"i", "f", " ">>, <<Tok("IF", <<"i", "f">>)>>),
      LexPiece(<<"c", "h", "a", "o", "s", " ">>, <<Tok("IDENTIFIER", <<"c", "h", "a", "o", "s">>)>>),
      LexPiece(<<"=", "=", " ">>, <<Tok("EQ", <<"=", "=">>)>>),
      LexPiece(<<"!", "=", " ">>, <<Tok("NEQ", <<"!", "=">>)>>),
      LexPiece(<<"9", "0", "0", "0", " ">>, <<Tok("NUMBER", <<"9", "0", "0", "0">>)>>),
      LexPiece(<<"{">>, <<Tok("LBRACE", <<"{">>)>>),
      LexPiece(<<"a", "s", "k", " ">>, <<Tok("ASK", <<"a", "s", "k">>)>>),
      LexPiece(<<"\"", "x", "\"">>, <<Tok("STRING", <<"x">>)>>),
      LexPiece(<<"}">>, <<Tok("RBRACE", <<"}">>)>>),
      LexPiece(<<" ">>, <<>>),
      LexPiece(<<"\t">>, <<>>),
      LexPiece(<<"\r">>, <<>>),
      LexPiece(<<"\n">>, <<Tok("NEWLINE", <<"\n">>)>>),
      LexPiece(<<"#", " ", "c", "\n">>, <<Tok("NEWLINE", <<"\n">>)>>) }

\* if chaos == 9000 { ask "x" }
ExamplePieces ==
    << LexPiece(<<"i", "f", " ">>, <<Tok("IF", <<"i", "f">>)>>),
       LexPiece(<<"c", "h", "a", "o", "s", " ">>, <<Tok("IDENTIFIER", <<"c", "h", "a", "o", "s">>)>>),
       LexPiece(<<"=", "=", " ">>, <<Tok("EQ", <<"=", "=">>)>>),
       LexPiece(<<"9", "0", "0", "0", " ">>, <<Tok("NUMBER", <<"9", "0", "0", "0">>)>>),
       LexPiece(<<"{">>, <<Tok("LBRACE", <<"{">>)>>),
       LexPiece(<<" ">>, <<>>),
       LexPiece(<<"a", "s", "k", " ">>, <<Tok("ASK", <<"a", "s", "k">>)>>),
       LexPiece(<<"\"", "x", "\"">>, <<Tok("STRING", <<"x">>)>>),
       LexPiece(<<" ">>, <<>>),
       LexPiece(<<"}">>, <<Tok("RBRACE", <<"}">>)>>) >>

TextOf(ps) == Concat([i \in 1..Len(ps) |-> ps[i].text])

\* NewLexer on the text.
InitLex ==
    /\ pieces \in UNION {[1..n -> LexPieces] : n \in 0..MaxPieces} \cup {ExamplePieces}
    /\ script = TextOf(pieces)
    /\ tokens = <<>>
    /\ lexPos = 1
    /\ pc = "lex"
    /\ dryRun = FALSE
    /\ program = <<>>
    /\ variables = EmptyEnv
    /\ beforeHooks = <<>>
    /\ afterHooks = <<>>
    /\ hookIdx = 0
    /\ stack = <<>>
    /\ trace = <<>>
    /\ err = <<>>
    /\ printed = <<>>
    /\ reparsed = <<>>
    /\ cond = NoCond
    /\ condResult = FALSE
    /\ call = 1

\* One call of NextToken; the caller stops at the end-of-input token.
Lexer_NextToken ==
    /\ pc = "lex"
    /\ \E r \in {NextToken(script, lexPos)} :
           /\ tokens' = Append(tokens, r.tok)
           /\ lexPos' = r.pos
           /\ pc' = IF r.tok.type = "EOF" THEN "lexed" ELSE "lex"
    /\ UNCHANGED <<script, pieces, call, program, dryRun, variables, beforeHooks,
                   afterHooks, hookIdx, stack, trace, err, printed, reparsed,
                   cond, condResult>>

SpecLex == InitLex /\ [][Lexer_NextToken]_vars

(***************************************************************************)
(* executeMCP on its own: one call of Interpreter.executeMCP on an MCPCall *)
(* node.  The services, methods and arguments cover every branch of the    *)
(* function: the four dispatched operations, browser, an unknown service,  *)
(* an unknown method, and for fs.write an object with a path, objects      *)
(* without one, texts that are not JSON objects of strings.                *)
(***************************************************************************)
MCPCalls ==
    {MCPCall(s, m, a) :
        s \in {<<"s", "h", "e", "l", "l">>, <<"f", "s">>, <<"b", "r", "o", "w", "s", "e", "r">>, <<"d", "b">>},
        m \in {<<"r", "u", "n">>, <<"w", "r", "i", "t", "e">>, <<"m", "k", "d", "i", "r">>, <<"r", "e", "a", "d">>, <<"o", "p", "e", "n">>},
        a \in {<<"{", "\"", "p", "a", "t", "h", "\"", ":", "\"", "p", "\"", ",", "\"", "c", "o", "n", "t", "e", "n", "t", "\"", ":", "\"", "c", "\"", "}">>, <<" ", "{", " ", "\"", "c", "o", "n", "t", "e", "n", "t", "\"", " ", ":", " ", "\"", "c", "\"", ",", " ", "\"", "p", "a", "t", "h", "\"", " ", ":", " ", "\"", "p", "\"", " ", "}", " ">>,
               <<"{", "\"", "x", "\"", ":", "\"", "y", "\"", "}">>, <<"{", "}">>, <<"{", "\"", "p", "a", "t", "h", "\"", ":", "\"", "p", "\"">>, <<"{", "\"", "p", "a", "t", "h", "\"", ":", "\"", "p", "\"", ",", "}">>,
               <<"{", "\"", "p", "a", "t", "h", "\"", ":", "1", "}">>, <<"\"", "p", "a", "t", "h", "\"">>, <<"d">>, <<>>}}

InitMCP ==
    /\ program \in {<<c>> : c \in MCPCalls}
    /\ dryRun \in BOOLEAN
    /\ pc = "mcp"
    /\ script = <<>>
    /\ pieces = <<>>
    /\ tokens = <<>>
    /\ lexPos = 1
    /\ call = 1
    /\ variables = EmptyEnv
    /\ beforeHooks = <<>>
    /\ afterHooks = <<>>
    /\ hookIdx = 0
    /\ stack = <<>>
    /\ trace = <<>>
    /\ err = <<>>
    /\ printed = <<>>
    /\ reparsed = <<>>
    /\ cond = NoCond
    /\ condResult = FALSE

ExecuteMCP_Call ==
    /\ pc = "mcp"
    /\ \E o \in executeMCP(program[1], dryRun) :
           /\ trace' = <<Ev("main", 1, program[1], o, <<>>)>>
           /\ err' = o.err
    /\ pc' = "mcpDone"
    /\ UNCHANGED <<script, pieces, tokens, lexPos, call, program, dryRun, variables,
                   beforeHooks, afterHooks, hookIdx, stack, printed, reparsed,
                   cond, condResult>>

SpecMCP == InitMCP /\ [][ExecuteMCP_Call]_vars

(***************************************************************************)
(* runREPL: one Interpreter, made by NewInterpreter, executes the lines    *)
(* read from standard input.  A line that is a REPL command is handled by  *)
(* the loop; a line with a { and no } opens the multi-line buffer, which   *)
(* is handed to the parser when a line with a } arrives; any other line is *)
(* lexed, parsed and executed on its own.  An error returned by Execute is *)
(* printed and the loop goes on.  `script` is the text being collected or  *)
(* executed; `trace` and `err` are those of the last Execute call.         *)
(***************************************************************************)
MaxLines == 3

\* The lines typed: statements of every kind on one line, the first and the
\* last line of a multi-line block, and REPL commands.
ReplLines ==
    {<<"b", "e", "f", "o", "r", "e", " ", "{", "s", "h", "e", "l", "l", " ", "\"", "b", "\"", "}">>, <<"a", "f", "t", "e", "r", " ", "{", "s", "h", "e", "l", "l", " ", "\"", "c", "\"", "}">>, <<"d", "b", "=", "5">>, <<"d", "b", "+", "+">>,
     <<"a", "s", "k", " ", "\"", "q", "\"">>, <<"f", "s", ".", "m", "k", "d", "i", "r", " ", "\"", "d", "\"">>, <<"i", "f", " ", "d", "b", "=", "=", "5", " ", "{", "s", "h", "e", "l", "l", " ", "\"", "s", "\"", "}">>,
     <<"r", "e", "p", "e", "a", "t", " ", "2", " ", "{">>, <<"}">>, <<"r", "e", "p", "e", "a", "t">>,
     <<"c", "l", "e", "a", "r">>, <<"v", "a", "r", "s">>, <<"e", "x", "i", "t">>}

InitREPL ==
    /\ pc = "prompt"
    /\ call = 0
    /\ dryRun = FALSE
    /\ script = <<>>
    /\ program = <<>>
    /\ variables = EmptyEnv
    /\ beforeHooks = <<>>
    /\ afterHooks = <<>>
    /\ hookIdx = 0
    /\ stack = <<>>
    /\ trace = <<>>
    /\ err = <<>>
    /\ printed = <<>>
    /\ reparsed = <<>>
    /\ cond = NoCond
    /\ condResult = FALSE
    /\ pieces = <<>>
    /\ tokens = <<>>
    /\ lexPos = 1

\* One iteration of the loop of runREPL, up to the call of Execute (whose
\* steps are those of Next, from "parse").
REPL_ReadLine ==
    /\ pc \in {"prompt", "returned", "multiline"}
    /\ call < MaxLines
    /\ call' = call + 1
    /\ \E line \in ReplLines :
         CASE pc # "multiline" /\ line \in {<<"e", "x", "i", "t">>, <<"q", "u", "i", "t">>} ->
                 /\ pc' = "exited"
                 /\ UNCHANGED <<script, variables, trace, err>>
           [] pc # "multiline" /\ line \in {<<"h", "e", "l", "p">>, <<"v", "a", "r", "s">>} ->
                 UNCHANGED <<pc, script, variables, trace, err>>
           [] pc # "multiline" /\ line = <<"c", "l", "e", "a", "r">> ->
                 /\ variables' = EmptyEnv
                 /\ UNCHANGED <<pc, script, trace, err>>
           [] /\ \E i \in 1..Len(line) : line[i] = "{"
              /\ \A i \in 1..Len(line) : line[i] # "}" ->
                 /\ script' = (IF pc = "multiline" THEN script ELSE <<>>) \o line \o <<"\n">>
                 /\ pc' = "multiline"
                 /\ UNCHANGED <<variables, trace, err>>
           [] pc = "multiline" /\ \A i \in 1..Len(line) : line[i] # "}" ->
                 /\ script' = script \o line \o <<"\n">>
                 /\ UNCHANGED <<pc, variables, trace, err>>
           [] OTHER ->
                 /\ script' = IF pc = "multiline" THEN script \o line \o <<"\n">> ELSE line
                 /\ pc' = "parse"
                 /\ trace' = <<>>
                 /\ err' = <<>>
                 /\ UNCHANGED variables
    /\ UNCHANGED <<pieces, tokens, lexPos, program, dryRun, beforeHooks, afterHooks,
                   hookIdx, stack, printed, reparsed, cond, condResult>>

NextREPL == Next \/ REPL_ReadLine

SpecREPL == InitREPL /\ [][NextREPL]_vars

TopLevel == 1..Len(program)

Entries == 1..Len(trace)

IsAssignment(k) == program[k].kind = "Assignment"

\* C1: when a before-hook statement fails, it is the last statement the run
\* executes (no later before-hook, no main-pass statement and no after-hook
\* is executed), and Execute has returned an error that starts with
\* "before hook failed".
C1_BeforeHookFailureAborts ==
    \A i \in Entries :
        (trace[i].phase = "before" /\ ~trace[i].ok) =>
            /\ i = Len(trace)
            /\ \A j \in Entries : trace[j].phase = "before"
            /\ pc = "returned"
            /\ Len(err) > 1
            /\ err[1] = "before hook failed"

\* A first before-hook failed while a second before-hook, a main-pass
\* statement and an after-hook were still to run.
C1_Witness ==
    /\ pc = "returned"
    /\ Len(trace) = 1
    /\ trace[1].phase = "before"
    /\ ~trace[1].ok
    /\ Len(beforeHooks) > 1
    /\ beforeHooks[2].kind = "MCPCall"
    /\ afterHooks # <<>>
    /\ \E k \in TopLevel : program[k].kind \in {"AskStatement", "ShellCommand", "MCPCall"}

\* The last top-level assignment to the name assigned by statement k.
IsLastAssignment(k) ==
    /\ IsAssignment(k)
    /\ \A m \in (k + 1)..Len(program) :
           IsAssignment(m) => program[m].name # program[k].name

\* Whether the value of assignment k is a literal or a bare word, and the
\* value it then denotes.
IsPlainValue(node) ==
    \/ node.kind \in {"StringLiteral", "NumberLiteral", "BooleanLiteral"}
    \/ /\ node.kind = "Identifier"
       /\ \A m \in TopLevel : IsAssignment(m) => program[m].name # node.name

PlainValue(node) ==
    CASE node.kind = "StringLiteral"  -> StrV(node.str)
      [] node.kind = "NumberLiteral"  -> NumV(node.num)
      [] node.kind = "BooleanLiteral" -> BoolV(node.bool)
      [] OTHER                        -> StrV(node.name)

HoldsLastAssignment(k) ==
    /\ Bound(variables, program[k].name)
    /\ (IsLastAssignment(k) /\ IsPlainValue(program[k].value)) =>
           variables[program[k].name] = PlainValue(program[k].value)

\* The line of the prompt for the context key, if the prompt has one.
PromptHas(prompt, key, text) ==
    \E n \in 1..Len(prompt.lines) :
        prompt.lines[n].key = key /\ prompt.lines[n].text = text

NoIncDecBefore(i) ==
    \A j \in 1..(i - 1) : trace[j].stmt.kind # "IncrementDecrement"

\* C2: when the first pass of Execute is over and nothing has been executed
\* yet, every top-level assignment's name is bound, to the value of the last
\* top-level assignment to it; once anything has been executed every such
\* name is bound; and the prompt of every ask statement has the line of
\* every assigned context key, also of one assigned later in the source,
\* with the value of the last assignment as long as no increment or
\* decrement has run.
C2_AssignmentsBeforeSideEffects ==
    /\ (pc = "before" /\ hookIdx = 1 /\ trace = <<>>) =>
           \A k \in TopLevel : IsAssignment(k) => HoldsLastAssignment(k)
    /\ trace # <<>> =>
           \A k \in TopLevel : IsAssignment(k) => Bound(variables, program[k].name)
    /\ \A i \in Entries :
           trace[i].stmt.kind = "AskStatement" =>
               \A k \in TopLevel :
                   (IsLastAssignment(k) /\ program[k].name = <<"d", "b">>) =>
                       /\ \E n \in 1..Len(trace[i].prompt.lines) :
                              trace[i].prompt.lines[n].key = <<"d", "b">>
                       /\ (NoIncDecBefore(i) /\ IsPlainValue(program[k].value)) =>
                              PromptHas(trace[i].prompt, <<"d", "b">>,
                                        SprintV(PlainValue(program[k].value)))

\* An ask that is the first statement of the script was executed with the
\* value of the assignment that follows it in its prompt.
C2_Witness ==
    /\ Len(program) = 2
    /\ program[1].kind = "AskStatement"
    /\ program[2] = Assignment(<<"d", "b">>, NumberLiteral(50))
    /\ Len(trace) = 1
    /\ trace[1].stmt = program[1]
    /\ PromptHas(trace[1].prompt, <<"d", "b">>, <<"5">>)

\* C3: Parse followed by Execute never panics, whatever the script.
C3_NeverPanics == pc # "panic"

PhaseRank(phase) ==
    CASE phase = "before" -> 1
      [] phase = "main"   -> 2
      [] OTHER            -> 3

IsExecutableHook(hook) == hook.kind \in {"ShellCommand", "MCPCall"}

IsLeaf(stmt) ==
    stmt.kind \in {"AskStatement", "ShellCommand", "MCPCall", "IncrementDecrement"}

\* Every executable statement of the hook list has its entry in the trace.
HooksAllRun(phase, hooks) ==
    \A h \in 1..Len(hooks) :
        IsExecutableHook(hooks[h]) =>
            \E i \in Entries : trace[i].phase = phase /\ trace[i].at = h

\* C4: the entries of the trace are in the order before-hooks, main pass,
\* after-hooks; the hook entries of a phase are statements of its hook list
\* in list order, the main entries belong to top-level statements in source
\* order; a run that returned without error has executed every executable
\* before-hook and after-hook and every top-level leaf statement exactly
\* once; and a failing after-hook is the last entry of a run that returned
\* an error starting with "after hook failed".
C4_ExecutionOrder ==
    /\ \A i, j \in Entries :
           i < j =>
               /\ PhaseRank(trace[i].phase) <= PhaseRank(trace[j].phase)
               /\ trace[i].phase = trace[j].phase =>
                      IF trace[i].phase = "main"
                      THEN trace[i].at <= trace[j].at
                      ELSE trace[i].at < trace[j].at
    /\ \A i \in Entries :
           CASE trace[i].phase = "before" -> trace[i].stmt = beforeHooks[trace[i].at]
             [] trace[i].phase = "after"  -> trace[i].stmt = afterHooks[trace[i].at]
             [] OTHER -> IsLeaf(program[trace[i].at]) =>
                             trace[i].stmt = program[trace[i].at]
    /\ (pc = "returned" /\ err = <<>>) =>
           /\ HooksAllRun("before", beforeHooks)
           /\ HooksAllRun("after", afterHooks)
           /\ \A k \in TopLevel :
                  IsLeaf(program[k]) =>
                      Cardinality({i \in Entries :
                                      trace[i].phase = "main" /\ trace[i].at = k}) = 1
    /\ \A i \in Entries :
           (trace[i].phase = "after" /\ ~trace[i].ok) =>
               /\ i = Len(trace)
               /\ pc = "returned"
               /\ Len(err) > 1
               /\ err[1] = "after hook failed"

\* A run with two before-hooks, a main-pass statement and an after-hook
\* returned without error.
C4_Witness ==
    /\ pc = "returned"
    /\ err = <<>>
    /\ Len(trace) = 4
    /\ trace[1].phase = "before"
    /\ trace[2].phase = "before"
    /\ trace[3].phase = "main"
    /\ trace[4].phase = "after"
    /\ \A i \in Entries : trace[i].ok

(***************************************************************************)
(* The statements a run of a block executes when none of them fails, as    *)
(* the language defines it: an if runs the block its condition chooses, a  *)
(* repeat runs its body count times.  r is the environment and the leaf    *)
(* statements executed so far.                                             *)
(***************************************************************************)
RECURSIVE RunBlock(_, _), RunTimes(_, _, _)
RunStmt(s, r) ==
    CASE s.kind \in {"AskStatement", "ShellCommand", "MCPCall"} ->
            [r EXCEPT !.out = Append(@, s)]
      [] s.kind = "IncrementDecrement" ->
            [env |-> executeIncrementDecrement(s, r.env), out |-> Append(r.out, s)]
      [] s.kind = "IfStatement" ->
            RunBlock(IF evalCondition(s.condition, r.env)
                     THEN s.consequence ELSE s.alternative, r)
      [] s.kind = "RepeatStatement" -> RunTimes(s.body, s.count, r)
      [] OTHER -> r

RunBlock(stmts, r) ==
    IF stmts = <<>> THEN r ELSE RunBlock(Tail(stmts), RunStmt(Head(stmts), r))

RunTimes(body, n, r) ==
    IF n <= 0 THEN r ELSE RunTimes(body, n - 1, RunBlock(body, r))

\* The environment the first pass leaves, and the run of the main pass.
CollectedEnv ==
    FirstPass(program, [variables |-> EmptyEnv, beforeHooks |-> <<>>,
                        afterHooks |-> <<>>]).variables

ExpectedMain == RunBlock(program, [env |-> CollectedEnv, out |-> <<>>]).out

IsMainEntry(e) == e.phase = "main"

StmtsOf(entries) == [i \in 1..Len(entries) |-> entries[i].stmt]

MainStmts == StmtsOf(SelectSeq(trace, IsMainEntry))

\* The repeat statements of a block, nested ones included, in source order.
RECURSIVE RepeatNodes(_)
RepeatNodesOf(s) ==
    CASE s.kind = "RepeatStatement" ->
            IF s.nilptr THEN <<s>> ELSE <<s>> \o RepeatNodes(s.body)
      [] s.kind = "IfStatement" ->
            IF s.nilptr THEN <<>>
            ELSE RepeatNodes(s.consequence) \o RepeatNodes(s.alternative)
      [] s.kind \in {"BeforeBlock", "AfterBlock"} -> RepeatNodes(s.statements)
      [] OTHER -> <<>>

RepeatNodes(stmts) ==
    IF stmts = <<>> THEN <<>>
    ELSE RepeatNodesOf(Head(stmts)) \o RepeatNodes(Tail(stmts))

IsRepeatToken(toks, t) == toks[t].type = "REPEAT"

RepeatTokenIndexes(toks) == SelectSeq([t \in 1..Len(toks) |-> t], LAMBDA t : IsRepeatToken(toks, t))

\* The count written after the repeat token at index t: 1 when there is none.
WrittenCount(toks, t) ==
    IF toks[t + 1].type = "NUMBER" /\ AllDigits(toks[t + 1].lit)
    THEN DigitsValue(toks[t + 1].lit, 0)
    ELSE IF toks[t + 1].type = "NUMBER" THEN 0 ELSE 1

CountsAsWritten(toks, at, nodes) ==
    /\ Len(nodes) = Len(at)
    /\ \A n \in 1..Len(nodes) :
           ~nodes[n].nilptr =>
               /\ nodes[n].count \in Nat
               /\ nodes[n].count = WrittenCount(toks, at[n])

\* C5: every repeat statement the parser produced (the nil pointer it
\* returns when the brace is missing is none) has a count in Nat, the
\* number written after `repeat` and 1 when none is written; and the main
\* pass of a run that returned without error executed exactly the leaf
\* statements of the program with every repeat body run count times in
\* place (not at all for count 0).
C5_RepeatCount ==
    /\ pc = "execute" =>
           CountsAsWritten(Tokens(script), RepeatTokenIndexes(Tokens(script)),
                           RepeatNodes(program))
    /\ (pc = "returned" /\ err = <<>>) => MainStmts = ExpectedMain

\* A repeat with count 2 ran its one-statement body twice and the run
\* returned without error.
C5_Witness ==
    /\ pc = "returned"
    /\ err = <<>>
    /\ Len(program) = 1
    /\ program[1].kind = "RepeatStatement"
    /\ ~program[1].nilptr
    /\ program[1].count = 2
    /\ Len(program[1].body) = 1
    /\ MainStmts = program[1].body \o program[1].body

IsFailedAsk(e) == e.stmt.kind = "AskStatement" /\ ~e.ok

AfterStmts == StmtsOf(SelectSeq(trace, LAMBDA e : e.phase = "after"))

\* C6: a failed assistant invocation leaves Execute without an error, and a
\* run in which nothing but assistant invocations failed returns no error
\* after executing every statement of the main pass and every executable
\* after-hook that it executes when nothing fails.
C6_AskFailureNonFatal ==
    /\ (trace # <<>> /\ IsFailedAsk(trace[Len(trace)])) => err = <<>>
    /\ (pc = "returned" /\ \A i \in Entries : trace[i].ok \/ IsFailedAsk(trace[i])) =>
           /\ err = <<>>
           /\ MainStmts = ExpectedMain
           /\ AfterStmts = SelectSeq(afterHooks, IsExecutableHook)

\* An assistant invocation failed, and the run went on to execute a later
\* main-pass statement and returned without error.
C6_Witness ==
    /\ pc = "returned"
    /\ err = <<>>
    /\ \E i \in Entries :
           /\ IsFailedAsk(trace[i])
           /\ \E j \in Entries : j > i /\ trace[j].phase = "main"

IsFailedMainShell(e) ==
    e.phase = "main" /\ e.stmt.kind = "ShellCommand" /\ ~e.ok

\* C7: a failing shell statement of the main pass is the last statement the
\* run executes (no later statement, no further iteration, no after-hook):
\* Execute has left every loop and returned the error of the command.
C7_MainShellFailureFatal ==
    \A i \in Entries :
        IsFailedMainShell(trace[i]) =>
            /\ i = Len(trace)
            /\ pc = "returned"
            /\ stack = <<>>
            /\ err = <<"shell command failed">>

\* A shell statement failed in the first of two iterations of a repeat.
C7_Witness ==
    /\ pc = "returned"
    /\ Len(trace) = 1
    /\ IsFailedMainShell(trace[1])
    /\ program[1].kind = "RepeatStatement"
    /\ ~program[1].nilptr
    /\ program[1].count = 2
    /\ program[1].body = <<trace[1].stmt>>

AtIncDec == AtStmt /\ CurStmt.kind = "IncrementDecrement"

\* C8: a step that executes an increment or decrement of a variable bound to
\* a number changes that binding only, by +1 for ++ and by -1 for --; on an
\* unbound variable or one that holds no number it leaves the environment
\* as it is; and it sets no error.
C8_IncDecFrame ==
    [][AtIncDec =>
          /\ err' = err
          /\ IF Bound(variables, CurStmt.name) /\ variables[CurStmt.name].t = "float64"
             THEN variables' =
                      [variables EXCEPT ![CurStmt.name] =
                          NumV(IF CurStmt.operator = <<"+", "+">>
                               THEN @.n + Scale ELSE @.n - Scale)]
             ELSE variables' = variables]_vars

\* db = 5 followed by db++ left db = 6.
C8_Witness ==
    /\ Len(program) = 2
    /\ program[1] = Assignment(<<"d", "b">>, NumberLiteral(5 * Scale))
    /\ program[2] = IncrementDecrement(<<"d", "b">>, <<"+", "+">>)
    /\ Len(trace) = 1
    /\ trace[1].stmt = program[2]
    /\ variables = Store(EmptyEnv, <<"d", "b">>, NumV(6 * Scale))

(***************************************************************************)
(* The comparison of the language, written out for the operands the        *)
(* condition specification draws: the text and the number each of them     *)
(* stands for.                                                             *)
(***************************************************************************)
\* The value of an operand: an unbound identifier is its own name.
OperandValue(node, env) ==
    CASE node.kind = "StringLiteral"  -> StrV(node.str)
      [] node.kind = "NumberLiteral"  -> NumV(node.num)
      [] node.kind = "BooleanLiteral" -> BoolV(node.bool)
      [] OTHER -> IF node.name \in DOMAIN env THEN env[node.name] ELSE StrV(node.name)

\* The default string form of the numbers drawn (in tenths).
NumberText(n) ==
    CASE n = 50       -> <<"5">>
      [] n = 10       -> <<"1">>
      [] n = 15       -> <<"1", ".", "5">>
      [] n = 0        -> <<"0">>
      [] n = 10000000 -> <<"1", "e", "+", "0", "6">>

AsText(v) ==
    CASE v.t = "string"  -> v.s
      [] v.t = "float64" -> NumberText(v.n)
      [] v.t = "bool"    -> IF v.b THEN <<"t", "r", "u", "e">> ELSE <<"f", "a", "l", "s", "e">>

\* The number (in tenths) a text stands for: 0 unless it is a numeral.
TextNumber(s) ==
    CASE s = <<"5">>   -> 50
      [] s = <<"1", ".", "5">> -> 15
      [] OTHER        -> 0

AsNumber(v) ==
    CASE v.t = "string"  -> TextNumber(v.s)
      [] v.t = "float64" -> v.n
      [] v.t = "bool"    -> IF v.b THEN 10 ELSE 0

Compare(op, l, r) ==
    CASE op = <<"=", "=">> -> AsText(l) = AsText(r)
      [] op = <<"!", "=">> -> AsText(l) # AsText(r)
      [] op = <<"<">>  -> AsNumber(l) < AsNumber(r)
      [] op = <<">">>  -> AsNumber(l) > AsNumber(r)
      [] op = <<"<", "=">> -> AsNumber(l) <= AsNumber(r)
      [] op = <<">", "=">> -> AsNumber(l) >= AsNumber(r)

\* C9: the result of evalCondition is the comparison of the two operands'
\* texts for == and !=, and of the numbers they stand for (0 for a text that
\* is no numeral, 1 and 0 for true and false) for <, >, <= and >=, an
\* unbound identifier being the text of its name.
C9_ConditionCoercion ==
    pc = "condDone" =>
        condResult = Compare(cond.operator, OperandValue(cond.left, variables),
                             OperandValue(cond.right, variables))

\* "5" == 5 was evaluated, to true.
C9_Witness ==
    /\ pc = "condDone"
    /\ cond = Condition(StringLiteral(<<"5">>), <<"=", "=">>, NumberLiteral(50))
    /\ condResult = TRUE

\* C10: when the printed program has been parsed again, the second AST is
\* the first one.
C10_RoundTrip == pc = "reparsed" => reparsed = program

\* C11: in a dry run no statement, in a hook or in the main pass, invokes an
\* external collaborator (assistant, shell, filesystem), none fails, and
\* Execute has no error to return.
C11_DryRunNoSideEffects ==
    dryRun =>
        /\ \A i \in Entries : trace[i].ext = "none" /\ trace[i].ok
        /\ err = <<>>

\* A dry run returned after a shell and a service call in the before-hooks,
\* an ask in the main pass and a shell in the after-hooks.
C11_Witness ==
    /\ dryRun
    /\ pc = "returned"
    /\ Len(trace) = 4
    /\ trace[1].stmt.kind = "ShellCommand"
    /\ trace[2].stmt.kind = "MCPCall"
    /\ trace[3].stmt.kind = "AskStatement"
    /\ trace[4].phase = "after"

ShellRunScript == <<"s", "h", "e", "l", "l", ".", "r", "u", "n", " ", "\"", "s", "\"", "\n">>

\* C12: the script `shell.run "s"` is parsed as the one service call
\* shell.run with argument s; executing it runs s as a system command and
\* binds no variable.
C12_ShellRunIsServiceCall ==
    (script = ShellRunScript /\ ~dryRun /\ pc = "returned") =>
        /\ program = <<MCPCall(<<"s", "h", "e", "l", "l">>, <<"r", "u", "n">>, <<"s">>)>>
        /\ variables = EmptyEnv
        /\ \E i \in Entries : trace[i].stmt = program[1] /\ trace[i].ext = "sh"

\* The tokens the pieces of the text are written for, and the end of input.
ExpectedTokens == Concat([i \in 1..Len(pieces) |-> pieces[i].toks]) \o <<EofTok>>

\* C13: the tokens returned so far are the first tokens the text is written
\* for, in order (blanks, tabs, carriage returns and comments give none, a
\* newline gives NEWLINE); when the end-of-input token has been returned
\* they are all of them, followed by that one end-of-input token.
C13_LexerTokens ==
    /\ Len(tokens) <= Len(ExpectedTokens)
    /\ tokens = SubSeq(ExpectedTokens, 1, Len(tokens))
    /\ pc = "lexed" => tokens = ExpectedTokens

\* if chaos == 9000 { ask "x" } has been lexed to its nine tokens.
C13_Witness ==
    /\ pc = "lexed"
    /\ script = <<"i", "f", " ", "c", "h", "a", "o", "s", " ", "=", "=", " ", "9", "0", "0", "0", " ", "{", " ", "a", "s", "k", " ", "\"", "x", "\"", " ", "}">>
    /\ tokens = << Tok("IF", <<"i", "f">>), Tok("IDENTIFIER", <<"c", "h", "a", "o", "s">>),
                   Tok("EQ", <<"=", "=">>), Tok("NUMBER", <<"9", "0", "0", "0">>),
                   Tok("LBRACE", <<"{">>), Tok("ASK", <<"a", "s", "k">>),
                   Tok("STRING", <<"x">>), Tok("RBRACE", <<"}">>),
                   Tok("EOF", <<>>) >>

AtHook ==
    \/ pc = "before" /\ hookIdx <= Len(beforeHooks)
    \/ pc = "after" /\ hookIdx <= Len(afterHooks)

CurHook == IF pc = "before" THEN beforeHooks[hookIdx] ELSE afterHooks[hookIdx]

\* C14: a step of a hook loop on a ShellCommand or an MCPCall executes that
\* statement (one more trace entry, for it); on a statement of any other
\* kind it changes neither the environment nor the trace, sets no error and
\* moves on to the next hook.  No hook step changes the environment.
C14_HookKinds ==
    [][AtHook =>
          /\ variables' = variables
          /\ IF IsExecutableHook(CurHook)
             THEN /\ Len(trace') = Len(trace) + 1
                  /\ trace'[Len(trace')].stmt = CurHook
             ELSE /\ trace' = trace
                  /\ err' = err
                  /\ pc' = pc
                  /\ hookIdx' = hookIdx + 1]_vars

\* The before-hook loop went over an ask, an assignment, an increment, an
\* if, a repeat and a nested after block and executed the one shell
\* statement that follows them.
C14_Witness ==
    /\ pc = "main"
    /\ Len(beforeHooks) = 7
    /\ {beforeHooks[h].kind : h \in 1..6} =
           {"AskStatement", "Assignment", "IncrementDecrement", "IfStatement",
            "RepeatStatement", "AfterBlock"}
    /\ Len(trace) = 1
    /\ trace[1].stmt = beforeHooks[7]
    /\ variables = EmptyEnv
    /\ afterHooks = <<>>

DispatchedOp(mcp) ==
    CASE mcp.service = <<"s", "h", "e", "l", "l">> /\ mcp.method = <<"r", "u", "n">> -> "sh"
      [] mcp.service = <<"f", "s">> /\ mcp.method = <<"w", "r", "i", "t", "e">>  -> "fs.write"
      [] mcp.service = <<"f", "s">> /\ mcp.method = <<"m", "k", "d", "i", "r">>  -> "fs.mkdir"
      [] mcp.service = <<"f", "s">> /\ mcp.method = <<"r", "e", "a", "d">>   -> "fs.read"
      [] OTHER -> "none"

\* The fs.write arguments that are a JSON object of strings with a "path".
WriteArgsWithPath ==
    {<<"{", "\"", "p", "a", "t", "h", "\"", ":", "\"", "p", "\"", ",", "\"", "c", "o", "n", "t", "e", "n", "t", "\"", ":", "\"", "c", "\"", "}">>, <<" ", "{", " ", "\"", "c", "o", "n", "t", "e", "n", "t", "\"", " ", ":", " ", "\"", "c", "\"", ",", " ", "\"", "p", "a", "t", "h", "\"", " ", ":", " ", "\"", "p", "\"", " ", "}", " ">>}

WrappedError(op) ==
    CASE op = "sh"       -> <<"MCP command failed">>
      [] op = "fs.write" -> <<"fs.write failed">>
      [] op = "fs.mkdir" -> <<"fs.mkdir failed">>
      [] op = "fs.read"  -> <<"fs.read failed">>

\* C15: after a call of executeMCP outside dry-run mode, an error is
\* returned exactly when an operation was dispatched and failed, and the
\* error is that operation's wrapped error; the operation dispatched is the
\* one of the service/method pair, except that fs.write dispatches a write
\* only for an argument that decodes to an object with a "path" and
\* otherwise does nothing and returns nil; browser.* and unknown pairs
\* dispatch nothing and return nil.
C15_MCPErrors ==
    (pc = "mcpDone" /\ ~dryRun) =>
        /\ err # <<>> <=> (trace[1].ext # "none" /\ ~trace[1].ok)
        /\ err # <<>> => err = WrappedError(trace[1].ext)
        /\ trace[1].ext =
              IF DispatchedOp(program[1]) = "fs.write"
                 /\ program[1].arg \notin WriteArgsWithPath
              THEN "none"
              ELSE DispatchedOp(program[1])
        /\ program[1].service = <<"b", "r", "o", "w", "s", "e", "r">> => err = <<>> /\ trace[1].ext = "none"

\* fs.write was called with a JSON object that has no "path": nothing was
\* written and no error returned.
C15_Witness ==
    /\ pc = "mcpDone"
    /\ ~dryRun
    /\ program[1].service = <<"f", "s">>
    /\ program[1].method = <<"w", "r", "i", "t", "e">>
    /\ program[1].arg = <<"{", "\"", "x", "\"", ":", "\"", "y", "\"", "}">>
    /\ trace[1].ext = "none"
    /\ err = <<>>

BangScript == <<"!", "\n", "a", "s", "k", " ", "\"", "q", "\"", "\n">>

\* C16: a bare `!` is skipped by the lexer and the statements after it are
\* parsed and executed: the script `!` followed by `ask "q"` parses to the
\* one ask statement, and Execute runs it.
C16_BareBangSkipped ==
    (script = BangScript /\ pc = "returned") =>
        /\ program = <<AskStatement(<<"q">>)>>
        /\ \E i \in Entries : trace[i].stmt = program[1]

DecrementScript == <<"d", "b", "=", "5", "\n", "d", "b", "-", "-", "\n">>

\* C17: `db = 5` followed by `db--` (no space) parses to an assignment and
\* an IncrementDecrement of db with operator --, and leaves db = 4.
C17_AdjacentDecrement ==
    (script = DecrementScript /\ pc = "returned") =>
        /\ program = <<Assignment(<<"d", "b">>, NumberLiteral(5 * Scale)),
                       IncrementDecrement(<<"d", "b">>, <<"-", "-">>)>>
        /\ variables = Store(EmptyEnv, <<"d", "b">>, NumV(4 * Scale))

\* C18: Parse terminates for every script: main never stays inside the
\* parser.
C18_ParseTerminates == pc # "hang"

\* The names of the Assignment statements at the top level of the program.
TopLevelAssigned ==
    {program[i].name : i \in {j \in TopLevel : program[j].kind = "Assignment"}}

\* A step of the hook loops or of the main pass keeps the set of bound
\* names; if it changes a value, it is the execution of an increment or
\* decrement of a variable bound to a number, and changes no other variable.
BindingStep ==
    pc \in {"before", "main", "after"} =>
        /\ DOMAIN variables' = DOMAIN variables
        /\ variables' # variables =>
              /\ AtIncDec
              /\ Bound(variables, CurStmt.name)
              /\ variables[CurStmt.name].t = "float64"
              /\ \A n \in DOMAIN variables \ {CurStmt.name} :
                     variables'[n] = variables[n]

OwnHooks ==
    FirstPass(program, [variables |-> EmptyEnv, beforeHooks |-> <<>>,
                        afterHooks |-> <<>>])

\* The statements of the trace entries of a phase, in order.
RECURSIVE PhaseStmts(_, _)
PhaseStmts(phase, i) ==
    IF i > Len(trace) THEN <<>>
    ELSE (IF trace[i].phase = phase THEN <<trace[i].stmt>> ELSE <<>>)
         \o PhaseStmts(phase, i + 1)

\* C20: an Execute call that completed without failure has executed the
\* shell/MCP statements of the before blocks of its program, once each and
\* in order, as its before-hook entries, and those of its after blocks as
\* its after-hook entries, and no other hook: none registered by an earlier
\* call on the same Interpreter.
C20_HooksOncePerCall ==
    (pc = "returned" /\ err = <<>>) =>
        /\ PhaseStmts("before", 1) = SelectSeq(OwnHooks.beforeHooks, IsExecutableHook)
        /\ PhaseStmts("after", 1) = SelectSeq(OwnHooks.afterHooks, IsExecutableHook)

====
